---- MODULE Spec2Model ----
(***************************************************************************)
(* Realtime audio relay between a voice channel and a speech agent.        *)
(*                                                                         *)
(* Spec models src/server.js: the agent-socket supervisor (connectElevenWS,*)
(* stopEleven, the idle timer, the reconnect timer), the join / leave      *)
(* command handlers, and the capture data handler that feeds the socket.   *)
(* SpecCap is the same program with several capture pipelines, SpecGate    *)
(* and SpecScenarioB are its voice-activity gate alone, SpecSeq and        *)
(* SpecGuard are variants kept in src/deploy-commands.js.  SpecAsm and     *)
(* SpecOrder are the sequence-numbered variant with what each socket       *)
(* delivered, SpecUtter is the utterance buffer of the guarded variant,    *)
(* SpecPlay is the playback stream of src/server.js and SpecWatch its      *)
(* voice watchdog.  SpecConfig starts src/server.js with or without its    *)
(* credentials, SpecGuilds sends it commands from several guilds,          *)
(* SpecCommit records which socket was sent audio, and SpecRetarget is     *)
(* SpecGuard with a direct agent URL and an agent that cannot be reached.  *)
(*                                                                         *)
(* Time is counted in ticks.  A timer holds the number of ticks left; a    *)
(* timer that is due fires before time advances.  Every handler runs to    *)
(* completion (one action); an await is a point where other handlers run.  *)
(***************************************************************************)
EXTENDS Integers, Sequences, FiniteSets, TLC

\* ---------------------------------------------------------------- bounds
\* socket objects that may exist at once
MaxSockets == 2
\* getSignedUrl() calls that may be in flight at once
MaxFetch == 2
\* pending setTimeout(connectElevenWS, 1500) timers
MaxTimers == 1
\* dao-join handlers suspended between joinVoice and connectElevenWS
MaxJoins == 1
\* capture pipelines (listenToUser closures) alive at once
MaxPipes == 1
\* longest frame delivered by the downsampler, in units of audio
MaxFrame == 2
\* IDLE_CLOSE_MS (45000 ms), in ticks
IDLE_CLOSE_TICKS == 3
\* the reconnect delay (1500 ms), in ticks
RECONNECT_TICKS == 1
\* VAD_HANG_MS (300 ms), in ticks
VAD_HANG == 1
\* chunkBytes (CHUNK_MS * BYTES_PER_MS), in units of audio
chunkBytes == 2

NULL == 0
\* ws.readyState; "FREE" is a socket object that does not exist (never
\* created, or CLOSED with its close event delivered)
ReadyStates == {"FREE", "CONNECTING", "OPEN", "CLOSING"}

VARIABLES
    alive,          \* the process runs (uncaughtException handler exits)
    USE_SIGNED_URL, \* configuration, fixed at start
    connection,     \* the voice connection is non-null
    shouldStayInVC,
    ws,             \* the module-level socket reference, NULL or a socket
    wantWs,
    idleTimer,      \* ticks left of the pending idle timeout, -1 if none
    readyState,     \* readyState of every socket object
    reconnects,     \* ticks left of each pending reconnect timeout
    joining,        \* dao-join handlers between joinVoice and connectElevenWS
    fetchJoin,      \* connectElevenWS calls of dao-join awaiting getSignedUrl
    fetchTimer,     \* connectElevenWS calls of a reconnect timer awaiting it
    pipeLive,       \* capture pipelines whose downsampler still emits
    sendBuffer,     \* per pipeline: units buffered; TRUE = captured while
                    \* the link was not Ready
    vadTalking,
    sinceVoice,     \* Date.now() - vadLastVoiceAt, capped at VAD_HANG
    out,            \* what the last handler sent and wrote
    act,            \* the last handler that ran
    leftWhile,      \* history: the supervisor state the last leave found,
                    \* "none" once a join followed it
    idleClosed,     \* history: the idle timeout closed a Ready link and
                    \* connectElevenWS has not been called since
    nextExpectedEventId, \* sequence-numbered variant: next id to play
    pendingAudio,   \* sequence-numbered variant: ids held back
    nextUnit,       \* gate specifications: the next unit of audio the
                    \* downsampler delivers (units are numbered as captured)
    captured,       \* history: the units of the talking period, in order
    gateLog,        \* history: the sendUserAudioChunk / sendUserAudioEnd
                    \* calls of the talking period, in order
    dipped,         \* history: the talking period took a frame below the
                    \* threshold
    recv,           \* guarded variant: the receive pipeline on record
    talkingOf,      \* guarded variant: per pipeline, the closure's talking
    sinceLast,      \* guarded variant: per pipeline, Date.now() - lastVoice,
                    \* capped at VAD_HANG
    joinUsers,      \* guarded variant: the users whose dao-join awaits
                    \* connectElevenWS()
    pipeClosed,     \* guarded variant: the pipelines that were cleaned up
                    \* and whose streams may still raise events
    arrivedOn,      \* history: per socket, the event ids of the audio
                    \* events it delivered, in order of arrival
    playedOn,       \* history: per socket, the event ids its message
                    \* handler wrote to playbackPCM, in order
    currentUtteranceChunks, \* utterance-buffered variant: the fragments
                    \* collected (fragments are numbered as they arrive)
    flushTimer,     \* ticks left of the pending flush timeout, -1 if none
    nextFrag,       \* the number of the next fragment to arrive
    resource,       \* the fragments of the audio resource the player
                    \* plays that were not handed to the sink yet
    built,          \* history: the playback pipelines (resampler,
                    \* encoder, audio resource) built so far
    sinceFrag,      \* history: ticks since the last fragment arrived,
                    \* while fragments are collected
    pcmBuffered,    \* units of agent audio buffered in playbackPCM16k
    writeOK,        \* what the last playbackPCM16k.write() returned
    rejoinTimers,   \* pending rejoin timeouts of the voice watchdog
    currentTargetUserId, \* a capture target is on record
    watchers,       \* stateChange handlers of the watchdog registered on
                    \* the voice connection `connection` refers to
    ELEVEN_AGENT_ID, \* configuration: the agent id is set
    ELEVEN_API_KEY, \* configuration: the API key is set
    voiceConns,     \* guilds in which the bot holds a voice connection
    connGuild,      \* the guild of the connection `connection` refers to
    audioSince      \* history: sockets a chunk was sent on since their
                    \* last end-of-utterance message

vars == <<alive, USE_SIGNED_URL, connection, shouldStayInVC, ws, wantWs,
          idleTimer, readyState, reconnects, joining, fetchJoin, fetchTimer,
          pipeLive, sendBuffer, vadTalking, sinceVoice, out, act,
          leftWhile, idleClosed, nextExpectedEventId, pendingAudio,
          nextUnit, captured, gateLog, dipped,
          recv, talkingOf, sinceLast, joinUsers, pipeClosed,
          arrivedOn, playedOn,
          currentUtteranceChunks, flushTimer, nextFrag, resource,
          built, sinceFrag,
          pcmBuffered, writeOK, rejoinTimers, currentTargetUserId,
          watchers, ELEVEN_AGENT_ID, ELEVEN_API_KEY, voiceConns, connGuild,
          audioSince>>

\* the capture pipelines the specification provides for (1..MaxPipes in
\* Spec, 1..MaxCaptures in SpecCap and SpecGuard)
PipeIds == DOMAIN sendBuffer
\* the socket objects the specification provides for (1..MaxSockets, in
\* SpecGuard 1..MaxGuardSockets)
SockIds == DOMAIN readyState

seqVars == <<nextExpectedEventId, pendingAudio>>
\* the history of the gate specifications
gateVars == <<nextUnit, captured, gateLog, dipped>>
\* the state of the guarded receive pipeline
bufVars == <<recv, talkingOf, sinceLast, joinUsers, pipeClosed>>
\* recv with no pipeline on record
NoRecv == [userId |-> NULL, pipe |-> NULL]
\* the history of the sequence-numbered audio events
asmVars == <<arrivedOn, playedOn>>
\* the utterance buffer and the player of the utterance-buffered variant
utterVars == <<currentUtteranceChunks, flushTimer, nextFrag, resource,
               built, sinceFrag>>
\* the playback stream of src/server.js
sinkVars == <<pcmBuffered, writeOK>>
\* the voice watchdog of src/server.js
watchVars == <<rejoinTimers, currentTargetUserId, watchers>>
\* the configuration the dao-join handler checks
cfgVars == <<ELEVEN_AGENT_ID, ELEVEN_API_KEY>>
\* the voice connections by guild
guildVars == <<voiceConns, connGuild>>
\* the configuration, the guilds and the history of chunks and ends
sessVars == <<cfgVars, guildVars, audioSince>>
\* what the playback side, the watchdog and the guilds add to the state
extVars == <<asmVars, utterVars, sinkVars, watchVars, sessVars>>
\* their values at module load
ExtInit ==
    /\ arrivedOn = [s \in DOMAIN readyState |-> <<>>]
    /\ playedOn = [s \in DOMAIN readyState |-> <<>>]
    /\ currentUtteranceChunks = <<>>
    /\ flushTimer = -1
    /\ nextFrag = 1
    /\ resource = <<>>
    /\ built = 0
    /\ sinceFrag = 0
    /\ pcmBuffered = 0
    /\ writeOK = TRUE
    /\ rejoinTimers = 0
    /\ currentTargetUserId = FALSE
    /\ watchers = 0
    /\ voiceConns = {}
    /\ connGuild = NULL
    /\ audioSince = {}

linkVars == <<ws, wantWs, idleTimer, readyState, reconnects>>
capVars == <<pipeLive, sendBuffer, vadTalking, sinceVoice>>
cmdVars == <<connection, shouldStayInVC, joining, fetchJoin, fetchTimer>>

\* ------------------------------------------------------ supervisor state
\* the socket the supervisor refers to is open
Ready == ws # NULL /\ readyState[ws] = "OPEN"
\* a connect attempt the supervisor knows of is in progress
Connecting ==
    \/ ws # NULL /\ readyState[ws] = "CONNECTING"
    \/ ws = NULL /\ wantWs /\ fetchJoin + fetchTimer > 0
Disconnected == ~Ready /\ ~Connecting
LiveSockets == {s \in SockIds : readyState[s] \in {"CONNECTING", "OPEN"}}
FreeSockets == {s \in SockIds : readyState[s] = "FREE"}
NewSocket == CHOOSE s \in FreeSockets : \A t \in FreeSockets : s <= t

\* ------------------------------------------------------------- messages
Msg(t, s, n, stale) == [t |-> t, s |-> s, n |-> n, stale |-> stale]

RECURSIVE CountTrue(_)
CountTrue(q) ==
    IF q = <<>> THEN 0
    ELSE (IF Head(q) THEN 1 ELSE 0) + CountTrue(Tail(q))

\* sendUserAudioChunk(buf) with module-level socket w: sends on an open
\* socket; otherwise the buffer is dropped ("chunk.dropped" records the
\* call, nothing is kept)
sendUserAudioChunk_NoStateCheck(w, rs, buf) ==
    IF w # NULL
    THEN <<Msg("chunk", w, Len(buf), CountTrue(buf))>>
    ELSE <<Msg("chunk.dropped", NULL, Len(buf), CountTrue(buf))>>
sendUserAudioChunk(w, rs, buf) ==
    IF w # NULL /\ rs[w] = "OPEN"
    THEN <<Msg("chunk", w, Len(buf), CountTrue(buf))>>
    ELSE <<Msg("chunk.dropped", NULL, Len(buf), CountTrue(buf))>>

\* sendUserAudioEnd()
sendUserAudioEnd(w, rs) ==
    IF w # NULL /\ rs[w] = "OPEN"
    THEN <<Msg("end", w, 0, 0)>>
    ELSE <<Msg("end.dropped", NULL, 0, 0)>>

RECURSIVE SendAll(_, _, _)
SendAll(w, rs, chunks) ==
    IF chunks = <<>> THEN <<>>
    ELSE sendUserAudioChunk(w, rs, Head(chunks)) \o SendAll(w, rs, Tail(chunks))

\* ------------------------------------------------- voice-activity gate
\* the while loop of the data handler: the full chunks sliced off buf
RECURSIVE Slices(_)
Slices_Short(buf) ==
    IF Len(buf) >= chunkBytes
    THEN <<SubSeq(buf, 1, chunkBytes - 1)>>
         \o Slices(SubSeq(buf, chunkBytes + 1, Len(buf)))
    ELSE <<>>
Slices(buf) ==
    IF Len(buf) >= chunkBytes
    THEN <<SubSeq(buf, 1, chunkBytes)>>
         \o Slices(SubSeq(buf, chunkBytes + 1, Len(buf)))
    ELSE <<>>
\* what the while loop leaves in buf
Rest_Empty(buf) == <<>>
Rest(buf) == SubSeq(buf, Len(buf) - (Len(buf) % chunkBytes) + 1, Len(buf))

\* downsampler.on('data'): one frame `chunk` of level >= VAD_THRESH (loud)
\* or below it, given the closure's buffer and the module's VAD state
onData_HangoverDrops(buf, talking, since, loud, chunk) ==
    LET t1 == loud \/ talking
        s1 == IF loud THEN 0 ELSE since
        b1 == IF loud THEN buf \o chunk ELSE buf
        sl == IF t1 THEN Slices(b1) ELSE <<>>
        b2 == IF t1 THEN Rest(b1) ELSE b1
        expire == t1 /\ s1 >= VAD_HANG
        tail == IF expire /\ Len(b2) > 0 THEN <<b2>> ELSE <<>>
    IN  [buf |-> IF expire THEN <<>> ELSE b2,
         talking |-> t1 /\ ~expire,
         since |-> s1,
         chunks |-> sl \o tail,
         end |-> expire]
onData(buf, talking, since, loud, chunk) ==
    LET t1 == loud \/ talking
        s1 == IF loud THEN 0 ELSE since
        b1 == IF loud \/ (talking /\ since < VAD_HANG)
              THEN buf \o chunk ELSE buf
        sl == IF t1 THEN Slices(b1) ELSE <<>>
        b2 == IF t1 THEN Rest(b1) ELSE b1
        expire == t1 /\ s1 >= VAD_HANG
        tail == IF expire /\ Len(b2) > 0 THEN <<b2>> ELSE <<>>
    IN  [buf |-> IF expire THEN <<>> ELSE b2,
         talking |-> t1 /\ ~expire,
         since |-> s1,
         chunks |-> sl \o tail,
         end |-> expire]

\* ------------------------------------------------------------- helpers
\* resetIdleTimer(): clears the pending timeout and arms a full one
resetIdleTimer == idleTimer' = IDLE_CLOSE_TICKS

\* stopEleven()
stopEleven_KeepsRef ==
    /\ wantWs' = FALSE
    /\ IF ws # NULL
       THEN /\ readyState' = [readyState EXCEPT ![ws] = "CLOSING"]
            /\ ws' = ws
       ELSE UNCHANGED <<readyState, ws>>
stopEleven ==
    /\ wantWs' = FALSE
    /\ IF ws # NULL
       THEN /\ readyState' = [readyState EXCEPT ![ws] = "CLOSING"]
            /\ ws' = NULL
       ELSE UNCHANGED <<readyState, ws>>

\* ws = new WebSocket(url)
createSocket ==
    /\ FreeSockets # {}
    /\ ws' = NewSocket
    /\ readyState' = [readyState EXCEPT ![NewSocket] = "CONNECTING"]

\* connectElevenWS() returns at its guard
connectIsNoOp == ws # NULL \/ wantWs

\* connectElevenWS() up to its first await (or to its end when there is
\* none); origin is the caller whose continuation waits for it
connectElevenWS(origin) ==
    IF connectIsNoOp
    THEN UNCHANGED <<ws, wantWs, readyState, fetchJoin, fetchTimer>>
    ELSE /\ wantWs' = TRUE
         /\ IF USE_SIGNED_URL
            THEN /\ fetchJoin + fetchTimer < MaxFetch
                 /\ fetchJoin' = fetchJoin + (IF origin = "join" THEN 1 ELSE 0)
                 /\ fetchTimer' = fetchTimer + (IF origin = "timer" THEN 1 ELSE 0)
                 /\ UNCHANGED <<ws, readyState>>
            ELSE /\ createSocket
                 /\ UNCHANGED <<fetchJoin, fetchTimer>>

\* the call is suspended at await getSignedUrl()
connectSuspends == ~connectIsNoOp /\ USE_SIGNED_URL

\* listenToUser(userId): a new pipeline and closure, when in a channel
listenToUser ==
    IF connection
    THEN /\ PipeIds \ pipeLive # {}
         /\ LET p == CHOOSE q \in PipeIds \ pipeLive :
                        \A r \in PipeIds \ pipeLive : q <= r
            IN  /\ pipeLive' = pipeLive \cup {p}
                /\ sendBuffer' = [sendBuffer EXCEPT ![p] = <<>>]
         /\ UNCHANGED <<vadTalking, sinceVoice>>
    ELSE UNCHANGED capVars

\* -------------------------------------------------------------- actions
Init ==
    /\ alive = TRUE
    /\ USE_SIGNED_URL \in BOOLEAN
    /\ connection = FALSE
    /\ shouldStayInVC = FALSE
    /\ ws = NULL
    /\ wantWs = FALSE
    /\ idleTimer = -1
    /\ readyState = [s \in 1..MaxSockets |-> "FREE"]
    /\ reconnects = <<>>
    /\ joining = 0
    /\ fetchJoin = 0
    /\ fetchTimer = 0
    /\ pipeLive = {}
    /\ sendBuffer = [p \in 1..MaxPipes |-> <<>>]
    /\ vadTalking = FALSE
    /\ sinceVoice = VAD_HANG
    /\ out = <<>>
    /\ act = "Init"
    /\ leftWhile = "none"
    /\ idleClosed = FALSE
    /\ nextExpectedEventId = 1
    /\ pendingAudio = {}
    /\ nextUnit = 1
    /\ captured = <<>>
    /\ gateLog = <<>>
    /\ dipped = FALSE
    /\ recv = NoRecv
    /\ talkingOf = [p \in 1..MaxPipes |-> FALSE]
    /\ sinceLast = [p \in 1..MaxPipes |-> VAD_HANG]
    /\ joinUsers = <<>>
    /\ pipeClosed = {}
    /\ ExtInit
    /\ ELEVEN_AGENT_ID = TRUE
    /\ ELEVEN_API_KEY = TRUE

\* dao-join: joinVoice(), then the handler awaits fetchMe / setDeaf
JoinVoice ==
    /\ alive
    /\ joining < MaxJoins
    /\ shouldStayInVC' = TRUE
    /\ connection' = TRUE
    /\ joining' = joining + 1
    /\ out' = <<>>
    /\ act' = "JoinVoice"
    /\ UNCHANGED <<alive, USE_SIGNED_URL, fetchJoin, fetchTimer>>
    /\ UNCHANGED linkVars
    /\ UNCHANGED capVars
    /\ leftWhile' = "none"
    /\ UNCHANGED idleClosed
    /\ UNCHANGED seqVars
    /\ UNCHANGED extVars
    /\ UNCHANGED gateVars
    /\ UNCHANGED bufVars

\* the dao-join handler finds the agent id missing, or the API key in
\* signed-URL mode
configMissing == ~ELEVEN_AGENT_ID \/ (USE_SIGNED_URL /\ ~ELEVEN_API_KEY)

\* dao-join, continued: with the configuration missing the handler edits
\* its reply and returns; otherwise await connectElevenWS();
\* listenToUser(user)
JoinConnect ==
    /\ alive
    /\ joining > 0
    /\ joining' = joining - 1
    /\ IF configMissing
       THEN /\ UNCHANGED <<ws, wantWs, readyState, fetchJoin, fetchTimer>>
            /\ UNCHANGED capVars
            /\ UNCHANGED idleClosed
            /\ act' = "JoinConfigError"
       ELSE /\ connectElevenWS("join")
            /\ IF connectSuspends THEN UNCHANGED capVars ELSE listenToUser
            /\ idleClosed' = FALSE
            /\ act' = "JoinConnect"
    /\ out' = <<>>
    /\ UNCHANGED <<alive, USE_SIGNED_URL, connection, shouldStayInVC,
                   idleTimer, reconnects>>
    /\ UNCHANGED leftWhile
    /\ UNCHANGED seqVars
    /\ UNCHANGED extVars
    /\ UNCHANGED gateVars
    /\ UNCHANGED bufVars

\* getSignedUrl() resolves: the suspended connectElevenWS creates its
\* socket; a dao-join caller then goes on to listenToUser
FetchResolve(origin) ==
    /\ alive
    /\ IF origin = "join" THEN fetchJoin > 0 ELSE fetchTimer > 0
    /\ fetchJoin' = fetchJoin - (IF origin = "join" THEN 1 ELSE 0)
    /\ fetchTimer' = fetchTimer - (IF origin = "timer" THEN 1 ELSE 0)
    /\ createSocket
    /\ IF origin = "join" THEN listenToUser ELSE UNCHANGED capVars
    /\ out' = <<>>
    /\ act' = "FetchResolve"
    /\ UNCHANGED <<alive, USE_SIGNED_URL, connection, shouldStayInVC, wantWs,
                   idleTimer, reconnects, joining>>
    /\ UNCHANGED <<leftWhile, idleClosed>>
    /\ UNCHANGED seqVars
    /\ UNCHANGED extVars
    /\ UNCHANGED gateVars
    /\ UNCHANGED bufVars

\* getSignedUrl() throws: connectElevenWS rejects, its caller catches
FetchReject(origin) ==
    /\ alive
    /\ IF origin = "join" THEN fetchJoin > 0 ELSE fetchTimer > 0
    /\ fetchJoin' = fetchJoin - (IF origin = "join" THEN 1 ELSE 0)
    /\ fetchTimer' = fetchTimer - (IF origin = "timer" THEN 1 ELSE 0)
    /\ out' = <<>>
    /\ act' = "FetchReject"
    /\ UNCHANGED <<alive, USE_SIGNED_URL, connection, shouldStayInVC, joining>>
    /\ UNCHANGED linkVars
    /\ UNCHANGED capVars
    /\ UNCHANGED <<leftWhile, idleClosed>>
    /\ UNCHANGED seqVars
    /\ UNCHANGED extVars
    /\ UNCHANGED gateVars
    /\ UNCHANGED bufVars

\* dao-leave: leaveVoice()
Leave ==
    /\ alive
    /\ shouldStayInVC' = FALSE
    /\ connection' = FALSE
    /\ stopEleven
    /\ out' = <<>>
    /\ act' = "Leave"
    /\ UNCHANGED <<alive, USE_SIGNED_URL, idleTimer, reconnects, joining,
                   fetchJoin, fetchTimer>>
    /\ UNCHANGED capVars
    /\ leftWhile' = (IF Ready THEN "Ready" ELSE IF Connecting THEN "Connecting"
                     ELSE "Disconnected")
    /\ UNCHANGED idleClosed
    /\ UNCHANGED seqVars
    /\ UNCHANGED extVars
    /\ UNCHANGED gateVars
    /\ UNCHANGED bufVars

\* ws.on('open') of socket s.  The handler sends on the module-level ws:
\* a null or still connecting ws throws out of the handler, and the
\* uncaughtException handler exits the process
SockOpen(s) ==
    /\ alive
    /\ readyState[s] = "CONNECTING"
    /\ readyState' = [readyState EXCEPT ![s] = "OPEN"]
    /\ resetIdleTimer
    /\ IF ws # NULL /\ readyState'[ws] = "OPEN"
       THEN /\ out' = <<Msg("init", ws, 0, 0), Msg("session_update", ws, 0, 0)>>
            /\ alive' = TRUE
       ELSE /\ out' = <<>>
            /\ alive' = FALSE
    /\ act' = "SockOpen"
    /\ UNCHANGED <<USE_SIGNED_URL, ws, wantWs, reconnects>>
    /\ UNCHANGED cmdVars
    /\ UNCHANGED capVars
    /\ UNCHANGED <<leftWhile, idleClosed>>
    /\ UNCHANGED seqVars
    /\ UNCHANGED extVars
    /\ UNCHANGED gateVars
    /\ UNCHANGED bufVars

\* ws.on('close') of socket s: the peer or the network closed it, or a
\* close() of ours completed
SockClose(s) ==
    /\ alive
    /\ readyState[s] # "FREE"
    /\ readyState' = [readyState EXCEPT ![s] = "FREE"]
    /\ ws' = NULL
    /\ idleTimer' = -1
    /\ IF wantWs /\ connection
       THEN /\ Len(reconnects) < MaxTimers
            /\ reconnects' = Append(reconnects, RECONNECT_TICKS)
       ELSE UNCHANGED reconnects
    /\ out' = <<>>
    /\ act' = "SockClose"
    /\ UNCHANGED <<alive, USE_SIGNED_URL, wantWs>>
    /\ UNCHANGED cmdVars
    /\ UNCHANGED capVars
    /\ UNCHANGED <<leftWhile, idleClosed>>
    /\ UNCHANGED seqVars
    /\ UNCHANGED extVars
    /\ UNCHANGED gateVars
    /\ UNCHANGED bufVars

\* highest event id a ping carries
MaxPingId == 2
PingIds == 1..MaxPingId

\* message types the agent sends; "garbage" does not parse as JSON,
\* "ping.bare" is a ping without its ping_event, "audio.bare" an audio
\* message without its audio_event
MsgKinds == {"ping", "audio", "audio.end", "other", "garbage",
             "ping.bare", "audio.bare"}
\* the event ids a message of this type may carry
IdsOf(kind) == IF kind = "ping" THEN PingIds ELSE {0}

\* does the ws.on('message') handler call resetIdleTimer() for this type
messageResetsIdle_Always(kind) == TRUE
messageResetsIdle(kind) == kind \in {"audio", "audio.bare"}

\* what the ws.on('message') handler sends and writes: a pong with the
\* ping's event id on the module-level ws, the decoded audio into
\* playbackPCM16k.  Whatever throws (the send on a null or connecting ws,
\* the read of a missing ping_event or audio_event) is caught by the
\* handler's try and ends the handler
messageOutput_OptionalChaining(kind, id) ==
    IF kind \in {"ping", "ping.bare"}
    THEN (IF Ready THEN <<Msg("pong", ws, id, 0)>> ELSE <<>>)
    ELSE IF kind = "audio" THEN <<Msg("play", NULL, 1, 0)>>
    ELSE <<>>
messageOutput(kind, id) ==
    IF kind = "ping"
    THEN (IF Ready THEN <<Msg("pong", ws, id, 0)>> ELSE <<>>)
    ELSE IF kind = "audio" THEN <<Msg("play", NULL, 1, 0)>>
    ELSE <<>>

\* ws.on('message') of socket s: a message of this type and event id
MsgIn(s, kind, id) ==
    /\ alive
    /\ readyState[s] = "OPEN"
    /\ IF messageResetsIdle(kind) THEN resetIdleTimer ELSE UNCHANGED idleTimer
    /\ out' = messageOutput(kind, id)
    /\ act' = kind
    /\ UNCHANGED <<alive, USE_SIGNED_URL, ws, wantWs, readyState, reconnects>>
    /\ UNCHANGED cmdVars
    /\ UNCHANGED capVars
    /\ UNCHANGED <<leftWhile, idleClosed>>
    /\ UNCHANGED seqVars
    /\ UNCHANGED extVars
    /\ UNCHANGED gateVars
    /\ UNCHANGED bufVars

\* the reconnect timeout set by ws.on('close') fires
ReconnectFire ==
    /\ alive
    /\ IF reconnects = <<>> THEN FALSE ELSE Head(reconnects) = 0
    /\ reconnects' = Tail(reconnects)
    /\ connectElevenWS("timer")
    /\ out' = <<>>
    /\ act' = "ReconnectFire"
    /\ UNCHANGED <<alive, USE_SIGNED_URL, connection, shouldStayInVC,
                   idleTimer, joining>>
    /\ UNCHANGED capVars
    /\ idleClosed' = FALSE
    /\ UNCHANGED leftWhile
    /\ UNCHANGED seqVars
    /\ UNCHANGED extVars
    /\ UNCHANGED gateVars
    /\ UNCHANGED bufVars

\* the idle timeout set by resetIdleTimer fires
IdleFire ==
    /\ alive
    /\ idleTimer = 0
    /\ idleTimer' = -1
    /\ stopEleven
    /\ out' = <<>>
    /\ act' = "IdleFire"
    /\ UNCHANGED <<alive, USE_SIGNED_URL, reconnects>>
    /\ UNCHANGED cmdVars
    /\ UNCHANGED capVars
    /\ idleClosed' = (idleClosed \/ Ready)
    /\ UNCHANGED leftWhile
    /\ UNCHANGED seqVars
    /\ UNCHANGED extVars
    /\ UNCHANGED gateVars
    /\ UNCHANGED bufVars

\* downsampler.on('data') of pipeline p: a frame of n units
Frame(p, loud, n) ==
    /\ alive
    /\ p \in pipeLive
    /\ resetIdleTimer
    /\ LET r == onData(sendBuffer[p], vadTalking, sinceVoice, loud,
                       [i \in 1..n |-> ~Ready])
       IN  /\ sendBuffer' = [sendBuffer EXCEPT ![p] = r.buf]
           /\ vadTalking' = r.talking
           /\ sinceVoice' = r.since
           /\ out' = SendAll(ws, readyState, r.chunks)
                     \o (IF r.end THEN sendUserAudioEnd(ws, readyState)
                         ELSE <<>>)
    /\ act' = "Frame"
    /\ UNCHANGED <<alive, USE_SIGNED_URL, ws, wantWs, readyState, reconnects,
                   pipeLive>>
    /\ UNCHANGED cmdVars
    /\ UNCHANGED <<leftWhile, idleClosed>>
    /\ UNCHANGED seqVars
    /\ UNCHANGED extVars
    /\ UNCHANGED gateVars
    /\ UNCHANGED bufVars

\* downsampler.on('end') of pipeline p
PipeEnd(p) ==
    /\ alive
    /\ p \in pipeLive
    /\ pipeLive' = pipeLive \ {p}
    /\ sendBuffer' = [sendBuffer EXCEPT ![p] = <<>>]
    /\ vadTalking' = FALSE
    /\ out' = (IF Len(sendBuffer[p]) > 0
               THEN sendUserAudioChunk(ws, readyState, sendBuffer[p])
               ELSE <<>>)
              \o (IF vadTalking THEN sendUserAudioEnd(ws, readyState)
                  ELSE <<>>)
    /\ act' = "PipeEnd"
    /\ UNCHANGED <<alive, USE_SIGNED_URL, sinceVoice>>
    /\ UNCHANGED linkVars
    /\ UNCHANGED cmdVars
    /\ UNCHANGED <<leftWhile, idleClosed>>
    /\ UNCHANGED seqVars
    /\ UNCHANGED extVars
    /\ UNCHANGED gateVars
    /\ UNCHANGED bufVars

\* one tick passes; no timeout is due
Tick ==
    /\ alive
    /\ idleTimer # 0
    /\ IF reconnects = <<>> THEN TRUE ELSE Head(reconnects) > 0
    /\ idleTimer' = IF idleTimer > 0 THEN idleTimer - 1 ELSE idleTimer
    /\ reconnects' = [i \in 1..Len(reconnects) |-> reconnects[i] - 1]
    /\ sinceVoice' = IF sinceVoice < VAD_HANG THEN sinceVoice + 1 ELSE sinceVoice
    /\ out' = <<>>
    /\ act' = "Tick"
    /\ UNCHANGED <<alive, USE_SIGNED_URL, ws, wantWs, readyState, pipeLive,
                   sendBuffer, vadTalking>>
    /\ UNCHANGED cmdVars
    /\ UNCHANGED <<leftWhile, idleClosed>>
    /\ UNCHANGED seqVars
    /\ UNCHANGED extVars
    /\ UNCHANGED gateVars
    /\ UNCHANGED bufVars

Next ==
    \/ JoinVoice
    \/ JoinConnect
    \/ \E o \in {"join", "timer"} : FetchResolve(o)
    \/ \E o \in {"join", "timer"} : FetchReject(o)
    \/ Leave
    \/ \E s \in SockIds : SockOpen(s)
    \/ \E s \in SockIds : SockClose(s)
    \/ \E s \in SockIds, k \in MsgKinds : \E id \in IdsOf(k) : MsgIn(s, k, id)
    \/ ReconnectFire
    \/ IdleFire
    \/ \E p \in PipeIds, loud \in BOOLEAN, n \in 1..MaxFrame : Frame(p, loud, n)
    \/ \E p \in PipeIds : PipeEnd(p)
    \/ Tick

Spec == Init /\ [][Next]_vars

\* SpecConfig is src/server.js started with or without its agent id and
\* its API key
InitConfig ==
    /\ alive = TRUE
    /\ USE_SIGNED_URL \in BOOLEAN
    /\ connection = FALSE
    /\ shouldStayInVC = FALSE
    /\ ws = NULL
    /\ wantWs = FALSE
    /\ idleTimer = -1
    /\ readyState = [s \in 1..MaxSockets |-> "FREE"]
    /\ reconnects = <<>>
    /\ joining = 0
    /\ fetchJoin = 0
    /\ fetchTimer = 0
    /\ pipeLive = {}
    /\ sendBuffer = [p \in 1..MaxPipes |-> <<>>]
    /\ vadTalking = FALSE
    /\ sinceVoice = VAD_HANG
    /\ out = <<>>
    /\ act = "Init"
    /\ leftWhile = "none"
    /\ idleClosed = FALSE
    /\ nextExpectedEventId = 1
    /\ pendingAudio = {}
    /\ nextUnit = 1
    /\ captured = <<>>
    /\ gateLog = <<>>
    /\ dipped = FALSE
    /\ recv = NoRecv
    /\ talkingOf = [p \in 1..MaxPipes |-> FALSE]
    /\ sinceLast = [p \in 1..MaxPipes |-> VAD_HANG]
    /\ joinUsers = <<>>
    /\ pipeClosed = {}
    /\ ExtInit
    /\ ELEVEN_AGENT_ID \in BOOLEAN
    /\ ELEVEN_API_KEY \in BOOLEAN

SpecConfig == InitConfig /\ [][Next]_vars

TypeOK ==
    /\ alive \in BOOLEAN
    /\ ws \in SockIds \cup {NULL}
    /\ idleTimer \in -1..IDLE_CLOSE_TICKS
    /\ readyState \in [SockIds -> ReadyStates]
    /\ Len(reconnects) <= MaxTimers
    /\ fetchJoin + fetchTimer <= MaxFetch
    /\ \A p \in PipeIds : Len(sendBuffer[p]) < chunkBytes

\* ------------------------------------- the sequence-numbered variant
\* SpecSeq models the variant of src/deploy-commands.js whose socket handler
\* reorders audio events by event id.  It has no wantWs, no idle timer and
\* no reconnect timer; fetchJoin counts its suspended connectElevenWS calls.

\* highest event id the agent sends
MaxEventId == 3
EventIds == 1..MaxEventId

serverOnlyVars == <<shouldStayInVC, wantWs, idleTimer, reconnects, joining,
                    fetchTimer, vadTalking, sinceVoice, leftWhile, idleClosed>>

\* connectElevenWS() returns at its guard
SeqConnectIsNoOp_Guarded == ws # NULL \/ fetchJoin > 0
SeqConnectIsNoOp == ws # NULL

SeqReady == ws # NULL /\ readyState[ws] = "OPEN"
\* a connectElevenWS() call is in progress
SeqConnecting ==
    \/ ws # NULL /\ readyState[ws] = "CONNECTING"
    \/ ws = NULL /\ fetchJoin > 0

\* sendUserAudioChunk(pcm16kMono)
SeqSendUserAudioChunk(buf) ==
    IF ws # NULL /\ readyState[ws] = "OPEN"
    THEN <<Msg("chunk", ws, Len(buf), CountTrue(buf))>>
    ELSE <<Msg("chunk.dropped", NULL, Len(buf), CountTrue(buf))>>

RECURSIVE SeqSendAll(_)
SeqSendAll(chunks) ==
    IF chunks = <<>> THEN <<>>
    ELSE SeqSendUserAudioChunk(Head(chunks)) \o SeqSendAll(Tail(chunks))

\* listenToUser(userId)
SeqListenToUser ==
    IF connection'
    THEN /\ PipeIds \ pipeLive # {}
         /\ LET p == CHOOSE q \in PipeIds \ pipeLive :
                        \A r \in PipeIds \ pipeLive : q <= r
            IN  /\ pipeLive' = pipeLive \cup {p}
                /\ sendBuffer' = [sendBuffer EXCEPT ![p] = <<>>]
    ELSE UNCHANGED <<pipeLive, sendBuffer>>

\* dao-join: joinVoice(); connectElevenWS(); and, unless that call is
\* suspended at getSignedUrl(), listenToUser(user)
SeqJoin ==
    /\ alive
    /\ connection' = TRUE
    /\ IF SeqConnectIsNoOp
       THEN /\ UNCHANGED <<ws, readyState, fetchJoin>>
            /\ SeqListenToUser
       ELSE IF USE_SIGNED_URL
       THEN /\ fetchJoin < MaxFetch
            /\ fetchJoin' = fetchJoin + 1
            /\ UNCHANGED <<ws, readyState, pipeLive, sendBuffer>>
       ELSE /\ createSocket
            /\ UNCHANGED fetchJoin
            /\ SeqListenToUser
    /\ out' = <<>>
    /\ act' = "SeqJoin"
    /\ UNCHANGED <<alive, USE_SIGNED_URL>>
    /\ UNCHANGED serverOnlyVars
    /\ UNCHANGED gateVars
    /\ UNCHANGED seqVars
    /\ UNCHANGED extVars
    /\ UNCHANGED bufVars

\* getSignedUrl() resolves: the socket is created, then listenToUser(user)
SeqFetchResolve ==
    /\ alive
    /\ fetchJoin > 0
    /\ fetchJoin' = fetchJoin - 1
    /\ createSocket
    /\ UNCHANGED connection
    /\ SeqListenToUser
    /\ out' = <<>>
    /\ act' = "SeqFetchResolve"
    /\ UNCHANGED <<alive, USE_SIGNED_URL>>
    /\ UNCHANGED serverOnlyVars
    /\ UNCHANGED gateVars
    /\ UNCHANGED seqVars
    /\ UNCHANGED extVars
    /\ UNCHANGED bufVars

\* getSignedUrl() throws; the command handler catches
SeqFetchReject ==
    /\ alive
    /\ fetchJoin > 0
    /\ fetchJoin' = fetchJoin - 1
    /\ out' = <<>>
    /\ act' = "SeqFetchReject"
    /\ UNCHANGED <<alive, USE_SIGNED_URL, connection, ws, readyState,
                   pipeLive, sendBuffer>>
    /\ UNCHANGED serverOnlyVars
    /\ UNCHANGED gateVars
    /\ UNCHANGED seqVars
    /\ UNCHANGED extVars
    /\ UNCHANGED bufVars

\* dao-leave: leaveVoice()
SeqLeave ==
    /\ alive
    /\ connection' = FALSE
    /\ IF ws # NULL
       THEN /\ readyState' = [readyState EXCEPT ![ws] = "CLOSING"]
            /\ ws' = NULL
       ELSE UNCHANGED <<readyState, ws>>
    /\ out' = <<>>
    /\ act' = "SeqLeave"
    /\ UNCHANGED <<alive, USE_SIGNED_URL, fetchJoin, pipeLive, sendBuffer>>
    /\ UNCHANGED serverOnlyVars
    /\ UNCHANGED gateVars
    /\ UNCHANGED seqVars
    /\ UNCHANGED extVars
    /\ UNCHANGED bufVars

\* ws.on('open') of socket s: the handler sends on the module-level ws; a
\* null or still connecting ws throws out of the handler and ends the
\* process
SeqSockOpen(s) ==
    /\ alive
    /\ readyState[s] = "CONNECTING"
    /\ readyState' = [readyState EXCEPT ![s] = "OPEN"]
    /\ IF ws # NULL /\ readyState'[ws] = "OPEN"
       THEN /\ out' = <<Msg("init", ws, 0, 0)>>
            /\ alive' = TRUE
       ELSE /\ out' = <<>>
            /\ alive' = FALSE
    /\ act' = "SeqSockOpen"
    /\ UNCHANGED <<USE_SIGNED_URL, connection, ws, fetchJoin, pipeLive,
                   sendBuffer>>
    /\ UNCHANGED serverOnlyVars
    /\ UNCHANGED gateVars
    /\ UNCHANGED seqVars
    /\ UNCHANGED extVars
    /\ UNCHANGED bufVars

\* ws.on('close') of socket s
SeqSockClose(s) ==
    /\ alive
    /\ readyState[s] # "FREE"
    /\ readyState' = [readyState EXCEPT ![s] = "FREE"]
    /\ ws' = NULL
    /\ nextExpectedEventId' = 1
    /\ pendingAudio' = {}
    /\ out' = <<>>
    /\ act' = "SeqSockClose"
    /\ UNCHANGED <<alive, USE_SIGNED_URL, connection, fetchJoin, pipeLive,
                   sendBuffer>>
    /\ UNCHANGED serverOnlyVars
    /\ UNCHANGED gateVars
    /\ UNCHANGED bufVars
    /\ UNCHANGED extVars

\* the while loop of the audio branch: the ids written to playbackPCM, in
\* order, from next on, given the ids held
RECURSIVE Released(_, _)
Released_LowestHeld(next, held) ==
    <<Msg("play", NULL, CHOOSE i \in held : \A j \in held : i <= j, 0)>>
Released(next, held) ==
    IF next \in held
    THEN <<Msg("play", NULL, next, 0)>> \o Released(next + 1, held \ {next})
    ELSE <<>>

\* ws.on('message') of socket s: an audio event with event id
SeqAudio(s, id) ==
    /\ alive
    /\ readyState[s] = "OPEN"
    /\ LET held == pendingAudio \cup {id}
           rel == Released(nextExpectedEventId, held)
       IN  /\ out' = rel
           /\ nextExpectedEventId' = nextExpectedEventId + Len(rel)
           /\ pendingAudio' =
                 {i \in held : i < nextExpectedEventId
                               \/ i >= nextExpectedEventId + Len(rel)}
    /\ act' = "SeqAudio"
    /\ UNCHANGED <<alive, USE_SIGNED_URL, connection, ws, readyState,
                   fetchJoin, pipeLive, sendBuffer>>
    /\ UNCHANGED serverOnlyVars
    /\ UNCHANGED gateVars
    /\ UNCHANGED bufVars
    /\ UNCHANGED extVars

\* ws.on('message') of socket s: a ping, or a message of another type
SeqMsgIn(s, kind) ==
    /\ alive
    /\ readyState[s] = "OPEN"
    /\ kind \in {"ping", "other"}
    /\ out' = IF kind = "ping" /\ SeqReady
              THEN <<Msg("pong", ws, 0, 0)>> ELSE <<>>
    /\ act' = kind
    /\ UNCHANGED <<alive, USE_SIGNED_URL, connection, ws, readyState,
                   fetchJoin, pipeLive, sendBuffer>>
    /\ UNCHANGED serverOnlyVars
    /\ UNCHANGED gateVars
    /\ UNCHANGED seqVars
    /\ UNCHANGED extVars
    /\ UNCHANGED bufVars

\* downsampler.on('data') of pipeline p: a frame of n units; no gate
SeqFrame(p, n) ==
    /\ alive
    /\ p \in pipeLive
    /\ LET b == sendBuffer[p] \o [i \in 1..n |-> ~SeqReady]
       IN  /\ out' = SeqSendAll(Slices(b))
           /\ sendBuffer' = [sendBuffer EXCEPT ![p] = Rest(b)]
    /\ act' = "SeqFrame"
    /\ UNCHANGED <<alive, USE_SIGNED_URL, connection, ws, readyState,
                   fetchJoin, pipeLive>>
    /\ UNCHANGED serverOnlyVars
    /\ UNCHANGED gateVars
    /\ UNCHANGED seqVars
    /\ UNCHANGED extVars
    /\ UNCHANGED bufVars

\* downsampler.on('end') of pipeline p
SeqPipeEnd(p) ==
    /\ alive
    /\ p \in pipeLive
    /\ pipeLive' = pipeLive \ {p}
    /\ sendBuffer' = [sendBuffer EXCEPT ![p] = <<>>]
    /\ out' = IF Len(sendBuffer[p]) > 0
              THEN SeqSendUserAudioChunk(sendBuffer[p]) ELSE <<>>
    /\ act' = "SeqPipeEnd"
    /\ UNCHANGED <<alive, USE_SIGNED_URL, connection, ws, readyState,
                   fetchJoin>>
    /\ UNCHANGED serverOnlyVars
    /\ UNCHANGED gateVars
    /\ UNCHANGED seqVars
    /\ UNCHANGED extVars
    /\ UNCHANGED bufVars

NextSeq ==
    \/ SeqJoin
    \/ SeqFetchResolve
    \/ SeqFetchReject
    \/ SeqLeave
    \/ \E s \in SockIds : SeqSockOpen(s)
    \/ \E s \in SockIds : SeqSockClose(s)
    \/ \E s \in SockIds, id \in EventIds : SeqAudio(s, id)
    \/ \E s \in SockIds, k \in {"ping", "other"} : SeqMsgIn(s, k)
    \/ \E p \in PipeIds, n \in 1..MaxFrame : SeqFrame(p, n)
    \/ \E p \in PipeIds : SeqPipeEnd(p)

SpecSeq == Init /\ [][NextSeq]_vars

\* ------------------------------------------- the voice-activity gate
\* SpecGate feeds the data and end handlers of one capture pipeline of
\* src/server.js with frames of samples and records what the gate hands to
\* sendUserAudioChunk and sendUserAudioEnd.  No agent socket exists, so
\* every call is a call on a link that is not open.  A new pipeline is
\* started only after the previous one ended; pipelines that run side by
\* side are the subject of SpecCap.

\* units of audio the downsampler delivers in one run
MaxUnits == 6
\* VAD_THRESHOLD, scaled to the sample values below
VAD_THRESH == 2
\* sample values: silence, a sample at the threshold, one above it
Samples == {0, VAD_THRESH, VAD_THRESH + 1}
\* the frames the downsampler delivers: 1..MaxFrame samples
Frames == UNION {[1..n -> Samples] : n \in 1..MaxFrame}

RECURSIVE SumSq(_)
SumSq(buf) == IF buf = <<>> THEN 0 ELSE Head(buf) * Head(buf) + SumSq(Tail(buf))
Isqrt(m) == CHOOSE r \in 0..m : r * r <= m /\ (r + 1) * (r + 1) > m
\* rms(buf): the root of the mean square of the samples, rounded down (the
\* thresholds it is compared with are whole numbers); an empty buffer
\* divides by 1
rms(buf) == Isqrt(SumSq(buf) \div (IF Len(buf) = 0 THEN 1 ELSE Len(buf)))

\* the test `level >= VAD_THRESH` of the data handler
isLoud_Strict(chunk) == rms(chunk) > VAD_THRESH
isLoud(chunk) == rms(chunk) >= VAD_THRESH

\* the units of a frame of n samples, numbered as captured
UnitsOf(n) == [i \in 1..n |-> nextUnit + i - 1]

\* a call of sendUserAudioChunk(buf) / of sendUserAudioEnd()
ChunkCall(buf) == [t |-> "chunk", units |-> buf]
EndCall == [t |-> "end", units |-> <<>>]
Calls_EndFirst(chunks, end) ==
    (IF end THEN <<EndCall>> ELSE <<>>)
    \o [i \in 1..Len(chunks) |-> ChunkCall(chunks[i])]
Calls(chunks, end) ==
    [i \in 1..Len(chunks) |-> ChunkCall(chunks[i])]
    \o (IF end THEN <<EndCall>> ELSE <<>>)

InitGate ==
    /\ alive = TRUE
    /\ USE_SIGNED_URL \in BOOLEAN
    /\ connection = TRUE
    /\ shouldStayInVC = TRUE
    /\ ws = NULL
    /\ wantWs = FALSE
    /\ idleTimer = -1
    /\ readyState = [s \in 1..MaxSockets |-> "FREE"]
    /\ reconnects = <<>>
    /\ joining = 0
    /\ fetchJoin = 0
    /\ fetchTimer = 0
    /\ pipeLive = {1}
    /\ sendBuffer = [p \in 1..MaxPipes |-> <<>>]
    /\ vadTalking = FALSE
    /\ sinceVoice = VAD_HANG
    /\ out = <<>>
    /\ act = "Init"
    /\ leftWhile = "none"
    /\ idleClosed = FALSE
    /\ nextExpectedEventId = 1
    /\ pendingAudio = {}
    /\ nextUnit = 1
    /\ captured = <<>>
    /\ gateLog = <<>>
    /\ dipped = FALSE
    /\ recv = NoRecv
    /\ talkingOf = [p \in 1..MaxPipes |-> FALSE]
    /\ sinceLast = [p \in 1..MaxPipes |-> VAD_HANG]
    /\ joinUsers = <<>>
    /\ pipeClosed = {}
    /\ ExtInit
    /\ ELEVEN_AGENT_ID = TRUE
    /\ ELEVEN_API_KEY = TRUE

\* downsampler.on('data') of the pipeline: frame f.  The history keeps the
\* talking period: it starts with a frame at or above the threshold and
\* takes every frame that arrives while the gate is Talking and less than
\* VAD_HANG after the last frame at or above the threshold
GFrame(f) ==
    /\ alive
    /\ 1 \in pipeLive
    /\ nextUnit + Len(f) - 1 <= MaxUnits
    /\ resetIdleTimer
    /\ LET r == onData(sendBuffer[1], vadTalking, sinceVoice, isLoud(f),
                       UnitsOf(Len(f)))
           level == rms(f)
           starts == ~vadTalking /\ level >= VAD_THRESH
           taken == level >= VAD_THRESH
                    \/ (vadTalking /\ sinceVoice < VAD_HANG)
           calls == Calls(r.chunks, r.end)
       IN  /\ sendBuffer' = [sendBuffer EXCEPT ![1] = r.buf]
           /\ vadTalking' = r.talking
           /\ sinceVoice' = r.since
           /\ out' = calls
           /\ captured' = IF starts THEN UnitsOf(Len(f))
                          ELSE IF taken THEN captured \o UnitsOf(Len(f))
                          ELSE captured
           /\ gateLog' = (IF starts THEN <<>> ELSE gateLog) \o calls
           /\ dipped' = IF starts THEN FALSE
                        ELSE dipped \/ (taken /\ level < VAD_THRESH)
    /\ nextUnit' = nextUnit + Len(f)
    /\ act' = "GFrame"
    /\ UNCHANGED <<alive, USE_SIGNED_URL, ws, wantWs, readyState, reconnects,
                   pipeLive>>
    /\ UNCHANGED cmdVars
    /\ UNCHANGED <<leftWhile, idleClosed>>
    /\ UNCHANGED seqVars
    /\ UNCHANGED extVars
    /\ UNCHANGED bufVars

\* downsampler.on('end') of the pipeline
GPipeEnd ==
    /\ alive
    /\ 1 \in pipeLive
    /\ pipeLive' = pipeLive \ {1}
    /\ sendBuffer' = [sendBuffer EXCEPT ![1] = <<>>]
    /\ vadTalking' = FALSE
    /\ LET calls == Calls(IF Len(sendBuffer[1]) > 0 THEN <<sendBuffer[1]>>
                          ELSE <<>>, vadTalking)
       IN  /\ out' = calls
           /\ gateLog' = gateLog \o calls
    /\ act' = "GPipeEnd"
    /\ UNCHANGED <<alive, USE_SIGNED_URL, sinceVoice>>
    /\ UNCHANGED linkVars
    /\ UNCHANGED cmdVars
    /\ UNCHANGED <<leftWhile, idleClosed>>
    /\ UNCHANGED seqVars
    /\ UNCHANGED extVars
    /\ UNCHANGED <<nextUnit, captured, dipped>>
    /\ UNCHANGED bufVars

\* dao-target once the pipeline has ended: listenToUser(user.id)
GRelisten ==
    /\ alive
    /\ pipeLive = {}
    /\ listenToUser
    /\ out' = <<>>
    /\ act' = "GRelisten"
    /\ UNCHANGED <<alive, USE_SIGNED_URL>>
    /\ UNCHANGED linkVars
    /\ UNCHANGED cmdVars
    /\ UNCHANGED <<leftWhile, idleClosed>>
    /\ UNCHANGED seqVars
    /\ UNCHANGED extVars
    /\ UNCHANGED gateVars
    /\ UNCHANGED bufVars

NextGate ==
    \/ \E f \in Frames : GFrame(f)
    \/ GPipeEnd
    \/ GRelisten
    \/ IdleFire
    \/ Tick

SpecGate == InitGate /\ [][NextGate]_vars

\* ---------------------------------------------- Scenario B of the gate
\* SpecScenarioB feeds the gate of src/server.js, at CHUNK_MS = 20 and
\* VAD_HANG_MS = 300, 100 ms of frames at or above the threshold and then
\* 400 ms of frames below it.  The frames arrive in real time, each when
\* its last unit was captured, and are 1..MaxFrame units long; a chunk of
\* 20 ms is chunkBytes units.

\* 100 ms, 300 ms and 400 ms in units of audio
ScenTalk == 5 * chunkBytes
ScenHang == 15 * chunkBytes
ScenQuiet == 20 * chunkBytes

\* Date.now() - vadLastVoiceAt in ticks when `fed` units have been
\* delivered: the last frame at or above the threshold arrived at ScenTalk
ScenSince(fed) ==
    IF fed <= ScenTalk THEN 0
    ELSE ((fed - ScenTalk) * VAD_HANG) \div ScenHang

\* downsampler.on('data'): the next frame of the scenario, n units long
ScenFrame(n) ==
    /\ alive
    /\ 1 \in pipeLive
    /\ nextUnit - 1 + n <= ScenTalk + ScenQuiet
    /\ nextUnit - 1 < ScenTalk => nextUnit - 1 + n <= ScenTalk
    /\ resetIdleTimer
    /\ LET loud == nextUnit - 1 < ScenTalk
           since == ScenSince(nextUnit - 1 + n)
           r == onData(sendBuffer[1], vadTalking, since, loud, UnitsOf(n))
           starts == ~vadTalking /\ loud
           taken == loud \/ (vadTalking /\ since < VAD_HANG)
           calls == Calls(r.chunks, r.end)
       IN  /\ sendBuffer' = [sendBuffer EXCEPT ![1] = r.buf]
           /\ vadTalking' = r.talking
           /\ sinceVoice' = r.since
           /\ out' = calls
           /\ captured' = IF starts THEN UnitsOf(n)
                          ELSE IF taken THEN captured \o UnitsOf(n)
                          ELSE captured
           /\ gateLog' = (IF starts THEN <<>> ELSE gateLog) \o calls
           /\ dipped' = IF starts THEN FALSE ELSE dipped \/ (taken /\ ~loud)
    /\ nextUnit' = nextUnit + n
    /\ act' = "ScenFrame"
    /\ UNCHANGED <<alive, USE_SIGNED_URL, ws, wantWs, readyState, reconnects,
                   pipeLive>>
    /\ UNCHANGED cmdVars
    /\ UNCHANGED <<leftWhile, idleClosed>>
    /\ UNCHANGED seqVars
    /\ UNCHANGED extVars
    /\ UNCHANGED bufVars

NextScenarioB == \E n \in 1..MaxFrame : ScenFrame(n)

SpecScenarioB == InitGate /\ [][NextScenarioB]_vars

\* ------------------------------------------------ capture pipelines
\* SpecCap is src/server.js with room for MaxCaptures capture pipelines,
\* the dao-target command, a direct agent URL (USE_SIGNED_URL is not
\* 'true') and an agent that sends nothing.

\* capture pipelines (listenToUser closures) alive at once in SpecCap
MaxCaptures == 2

InitCap ==
    /\ alive = TRUE
    /\ USE_SIGNED_URL = FALSE
    /\ connection = FALSE
    /\ shouldStayInVC = FALSE
    /\ ws = NULL
    /\ wantWs = FALSE
    /\ idleTimer = -1
    /\ readyState = [s \in 1..MaxSockets |-> "FREE"]
    /\ reconnects = <<>>
    /\ joining = 0
    /\ fetchJoin = 0
    /\ fetchTimer = 0
    /\ pipeLive = {}
    /\ sendBuffer = [p \in 1..MaxCaptures |-> <<>>]
    /\ vadTalking = FALSE
    /\ sinceVoice = VAD_HANG
    /\ out = <<>>
    /\ act = "Init"
    /\ leftWhile = "none"
    /\ idleClosed = FALSE
    /\ nextExpectedEventId = 1
    /\ pendingAudio = {}
    /\ nextUnit = 1
    /\ captured = <<>>
    /\ gateLog = <<>>
    /\ dipped = FALSE
    /\ recv = NoRecv
    /\ talkingOf = [p \in 1..MaxCaptures |-> FALSE]
    /\ sinceLast = [p \in 1..MaxCaptures |-> VAD_HANG]
    /\ joinUsers = <<>>
    /\ pipeClosed = {}
    /\ ExtInit
    /\ ELEVEN_AGENT_ID = TRUE
    /\ ELEVEN_API_KEY = TRUE

\* dao-target with the bot in a channel: listenToUser(user.id)
Target ==
    /\ alive
    /\ connection
    /\ listenToUser
    /\ out' = <<>>
    /\ act' = "Target"
    /\ UNCHANGED <<alive, USE_SIGNED_URL>>
    /\ UNCHANGED linkVars
    /\ UNCHANGED cmdVars
    /\ UNCHANGED <<leftWhile, idleClosed>>
    /\ UNCHANGED seqVars
    /\ UNCHANGED extVars
    /\ UNCHANGED gateVars
    /\ UNCHANGED bufVars

\* the 'error' event of the opus stream, the decoder or the downsampler of
\* pipeline p: the handler writes the error to the console
StageError(p) ==
    /\ alive
    /\ p \in pipeLive
    /\ out' = <<>>
    /\ act' = "StageError"
    /\ UNCHANGED <<alive, USE_SIGNED_URL>>
    /\ UNCHANGED linkVars
    /\ UNCHANGED cmdVars
    /\ UNCHANGED capVars
    /\ UNCHANGED <<leftWhile, idleClosed>>
    /\ UNCHANGED seqVars
    /\ UNCHANGED extVars
    /\ UNCHANGED gateVars
    /\ UNCHANGED bufVars

NextCap ==
    \/ JoinVoice
    \/ JoinConnect
    \/ Target
    \/ Leave
    \/ \E s \in SockIds : SockOpen(s)
    \/ \E s \in SockIds : SockClose(s)
    \/ ReconnectFire
    \/ IdleFire
    \/ \E p \in PipeIds, loud \in BOOLEAN, n \in 1..MaxFrame : Frame(p, loud, n)
    \/ \E p \in PipeIds : PipeEnd(p)
    \/ \E p \in PipeIds : StageError(p)
    \/ Tick

SpecCap == InitCap /\ [][NextCap]_vars

\* ------------------------------------------- the reordering of audio
\* SpecAsm is the sequence-numbered variant with a direct agent URL, a
\* user who does not speak, and the history of what every socket delivered
\* and of what its message handler wrote to playbackPCM.

\* audio events a socket delivers at most
MaxArrivals == 3

\* the play records of a handler's output, as event ids
PlayIds(q) == [i \in 1..Len(q) |-> q[i].n]

\* ws.on('message') of socket s: an audio event with event id
AsmAudio(s, id) ==
    /\ alive
    /\ readyState[s] = "OPEN"
    /\ Len(arrivedOn[s]) < MaxArrivals
    /\ LET held == pendingAudio \cup {id}
           rel == Released(nextExpectedEventId, held)
       IN  /\ out' = rel
           /\ nextExpectedEventId' = nextExpectedEventId + Len(rel)
           /\ pendingAudio' =
                 {i \in held : i < nextExpectedEventId
                               \/ i >= nextExpectedEventId + Len(rel)}
           /\ arrivedOn' = [arrivedOn EXCEPT ![s] = Append(@, id)]
           /\ playedOn' = [playedOn EXCEPT ![s] = @ \o PlayIds(rel)]
    /\ act' = "AsmAudio"
    /\ UNCHANGED <<alive, USE_SIGNED_URL, connection, ws, readyState,
                   fetchJoin, pipeLive, sendBuffer>>
    /\ UNCHANGED serverOnlyVars
    /\ UNCHANGED gateVars
    /\ UNCHANGED bufVars
    /\ UNCHANGED <<utterVars, sinkVars, watchVars>>
    /\ UNCHANGED sessVars

\* ws.on('close') of socket s; the socket object is gone, and so is its
\* history
AsmSockClose(s) ==
    /\ alive
    /\ readyState[s] # "FREE"
    /\ readyState' = [readyState EXCEPT ![s] = "FREE"]
    /\ ws' = NULL
    /\ nextExpectedEventId' = 1
    /\ pendingAudio' = {}
    /\ arrivedOn' = [arrivedOn EXCEPT ![s] = <<>>]
    /\ playedOn' = [playedOn EXCEPT ![s] = <<>>]
    /\ out' = <<>>
    /\ act' = "AsmSockClose"
    /\ UNCHANGED <<alive, USE_SIGNED_URL, connection, fetchJoin, pipeLive,
                   sendBuffer>>
    /\ UNCHANGED serverOnlyVars
    /\ UNCHANGED gateVars
    /\ UNCHANGED bufVars
    /\ UNCHANGED <<utterVars, sinkVars, watchVars>>
    /\ UNCHANGED sessVars

NextAsm ==
    \/ SeqJoin
    \/ SeqLeave
    \/ \E s \in SockIds : SeqSockOpen(s)
    \/ \E s \in SockIds : AsmSockClose(s)
    \/ \E s \in SockIds, id \in EventIds : AsmAudio(s, id)
    \/ \E p \in PipeIds : SeqPipeEnd(p)

SpecAsm == InitCap /\ [][NextAsm]_vars

\* SpecOrder is the same program without the history
NextOrder ==
    \/ SeqJoin
    \/ SeqLeave
    \/ \E s \in SockIds : SeqSockOpen(s)
    \/ \E s \in SockIds : SeqSockClose(s)
    \/ \E s \in SockIds, id \in EventIds : SeqAudio(s, id)
    \/ \E p \in PipeIds : SeqPipeEnd(p)

SpecOrder == InitCap /\ [][NextOrder]_vars

\* ------------------------------------ the guarded receive pipeline
\* SpecGuard models the variant of src/deploy-commands.js that keeps the
\* receive pipeline on record in recv and cleans it up before it starts a
\* new one and when the bot leaves.  Its agent-socket code (connectElevenWS,
\* the close handler, stopEleven, the idle and reconnect timeouts) is that
\* of src/server.js; its uncaughtException handler only logs.  The VAD
\* state is local to the listenToUser closure.  The agent sends nothing.

\* participants that may call dao-join
MaxUsers == 2
\* socket objects that may exist at once in SpecGuard
MaxGuardSockets == 1
Users == 1..MaxUsers

\* cleanupReceivePipeline(reason), on the set of pipelines whose streams
\* still have their listeners: the listeners of the pipeline on record are
\* removed and its streams destroyed; recv is reset by the caller's
\* conjunct recv' = NoRecv
cleanupReceivePipeline_RecordOnly(live) == live
cleanupReceivePipeline(live) == live \ {recv.pipe}

\* the closures of pipelines without listeners are unreachable
Collected(f, live, init) == [q \in DOMAIN f |-> IF q \in live THEN f[q] ELSE init]

\* listenToUser(userId), conn: the voice connection is non-null
BufListenToUser_NoCleanup(u, conn) ==
    IF ~conn \/ (recv.userId = u /\ recv.pipe # NULL)
    THEN UNCHANGED <<pipeLive, sendBuffer, recv, talkingOf, sinceLast,
                     pipeClosed>>
    ELSE LET live == pipeLive
             free == PipeIds \ (live \cup {recv.pipe})
             p == CHOOSE q \in free : \A r \in free : q <= r
         IN  /\ free # {}
             /\ pipeLive' = live \cup {p}
             /\ recv' = [userId |-> u, pipe |-> p]
             /\ pipeClosed' = (pipeClosed \cup ({recv.pipe} \ {NULL})) \ {p}
             /\ sendBuffer' = Collected(sendBuffer, live, <<>>)
             /\ talkingOf' = Collected(talkingOf, live, FALSE)
             /\ sinceLast' = Collected(sinceLast, live, VAD_HANG)
BufListenToUser(u, conn) ==
    IF ~conn \/ (recv.userId = u /\ recv.pipe # NULL)
    THEN UNCHANGED <<pipeLive, sendBuffer, recv, talkingOf, sinceLast,
                     pipeClosed>>
    ELSE LET live == cleanupReceivePipeline(pipeLive)
             free == PipeIds \ (live \cup {recv.pipe})
             p == CHOOSE q \in free : \A r \in free : q <= r
         IN  /\ free # {}
             /\ pipeLive' = live \cup {p}
             /\ recv' = [userId |-> u, pipe |-> p]
             /\ pipeClosed' = (pipeClosed \cup ({recv.pipe} \ {NULL})) \ {p}
             /\ sendBuffer' = Collected(sendBuffer, live, <<>>)
             /\ talkingOf' = Collected(talkingOf, live, FALSE)
             /\ sinceLast' = Collected(sinceLast, live, VAD_HANG)

InitGuard ==
    /\ alive = TRUE
    /\ USE_SIGNED_URL \in BOOLEAN
    /\ connection = FALSE
    /\ shouldStayInVC = FALSE
    /\ ws = NULL
    /\ wantWs = FALSE
    /\ idleTimer = -1
    /\ readyState = [s \in 1..MaxGuardSockets |-> "FREE"]
    /\ reconnects = <<>>
    /\ joining = 0
    /\ fetchJoin = 0
    /\ fetchTimer = 0
    /\ pipeLive = {}
    /\ sendBuffer = [p \in 1..MaxCaptures |-> <<>>]
    /\ vadTalking = FALSE
    /\ sinceVoice = VAD_HANG
    /\ out = <<>>
    /\ act = "Init"
    /\ leftWhile = "none"
    /\ idleClosed = FALSE
    /\ nextExpectedEventId = 1
    /\ pendingAudio = {}
    /\ nextUnit = 1
    /\ captured = <<>>
    /\ gateLog = <<>>
    /\ dipped = FALSE
    /\ recv = NoRecv
    /\ talkingOf = [p \in 1..MaxCaptures |-> FALSE]
    /\ sinceLast = [p \in 1..MaxCaptures |-> VAD_HANG]
    /\ joinUsers = <<>>
    /\ pipeClosed = {}
    /\ ExtInit
    /\ ELEVEN_AGENT_ID = TRUE
    /\ ELEVEN_API_KEY = TRUE

\* what SpecGuard's actions leave alone
guardOnlyVars == <<shouldStayInVC, joining, vadTalking, sinceVoice,
                   idleClosed>>

\* dao-join of user u: joinVoice(); await connectElevenWS(); listenToUser(u)
BufJoin(u) ==
    /\ alive
    /\ connection' = TRUE
    /\ connectElevenWS("join")
    /\ IF connectSuspends
       THEN /\ joinUsers' = Append(joinUsers, u)
            /\ UNCHANGED <<pipeLive, sendBuffer, recv, talkingOf, sinceLast,
                           pipeClosed>>
       ELSE /\ UNCHANGED joinUsers
            /\ BufListenToUser(u, TRUE)
    /\ out' = <<>>
    /\ act' = "BufJoin"
    /\ leftWhile' = "none"
    /\ UNCHANGED <<alive, USE_SIGNED_URL, idleTimer, reconnects>>
    /\ UNCHANGED guardOnlyVars
    /\ UNCHANGED seqVars
    /\ UNCHANGED extVars
    /\ UNCHANGED gateVars

\* getSignedUrl() of the i-th waiting dao-join resolves: the socket is
\* created, then listenToUser(user)
BufFetchResolve(i) ==
    /\ alive
    /\ i \in 1..Len(joinUsers)
    /\ joinUsers' = [j \in 1..Len(joinUsers) - 1 |->
                        IF j < i THEN joinUsers[j] ELSE joinUsers[j + 1]]
    /\ fetchJoin' = fetchJoin - 1
    /\ createSocket
    /\ BufListenToUser(joinUsers[i], connection)
    /\ out' = <<>>
    /\ act' = "BufFetchResolve"
    /\ UNCHANGED leftWhile
    /\ UNCHANGED <<alive, USE_SIGNED_URL, connection, wantWs, idleTimer,
                   reconnects, fetchTimer>>
    /\ UNCHANGED guardOnlyVars
    /\ UNCHANGED seqVars
    /\ UNCHANGED extVars
    /\ UNCHANGED gateVars

\* getSignedUrl() of the i-th waiting dao-join throws; the handler catches
BufFetchReject(i) ==
    /\ alive
    /\ i \in 1..Len(joinUsers)
    /\ joinUsers' = [j \in 1..Len(joinUsers) - 1 |->
                        IF j < i THEN joinUsers[j] ELSE joinUsers[j + 1]]
    /\ fetchJoin' = fetchJoin - 1
    /\ out' = <<>>
    /\ act' = "BufFetchReject"
    /\ UNCHANGED leftWhile
    /\ UNCHANGED <<alive, USE_SIGNED_URL, connection, fetchTimer>>
    /\ UNCHANGED linkVars
    /\ UNCHANGED <<pipeLive, sendBuffer, recv, talkingOf, sinceLast,
                   pipeClosed>>
    /\ UNCHANGED guardOnlyVars
    /\ UNCHANGED seqVars
    /\ UNCHANGED extVars
    /\ UNCHANGED gateVars

\* dao-leave: leaveVoice(); "close" records the ws.close() call, and the
\* history records a leave that directly follows a leave as "again"
BufLeave ==
    /\ alive
    /\ pipeLive' = cleanupReceivePipeline(pipeLive)
    /\ recv' = NoRecv
    /\ pipeClosed' = pipeClosed \cup ({recv.pipe} \ {NULL})
    /\ sendBuffer' = Collected(sendBuffer, pipeLive', <<>>)
    /\ talkingOf' = Collected(talkingOf, pipeLive', FALSE)
    /\ sinceLast' = Collected(sinceLast, pipeLive', VAD_HANG)
    /\ connection' = FALSE
    /\ stopEleven
    /\ out' = (IF ws # NULL THEN <<Msg("close", ws, 0, 0)>> ELSE <<>>)
    /\ act' = "BufLeave"
    /\ leftWhile' = (IF act = "BufLeave" THEN "again"
                     ELSE IF Ready THEN "Ready"
                     ELSE IF Connecting THEN "Connecting" ELSE "Disconnected")
    /\ UNCHANGED <<alive, USE_SIGNED_URL, idleTimer, reconnects, fetchJoin,
                   fetchTimer, joinUsers>>
    /\ UNCHANGED guardOnlyVars
    /\ UNCHANGED seqVars
    /\ UNCHANGED extVars
    /\ UNCHANGED gateVars

\* opusStream 'end' or 'close' of pipeline p: manualStop
BufStreamEnd(p) ==
    /\ alive
    /\ p \in pipeLive
    /\ pipeLive' = cleanupReceivePipeline(pipeLive)
    /\ recv' = NoRecv
    /\ pipeClosed' = pipeClosed \cup ({recv.pipe} \ {NULL})
    /\ sendBuffer' = Collected(sendBuffer, pipeLive', <<>>)
    /\ talkingOf' = Collected(talkingOf, pipeLive', FALSE)
    /\ sinceLast' = Collected(sinceLast, pipeLive', VAD_HANG)
    /\ out' = <<>>
    /\ act' = "BufStreamEnd"
    /\ UNCHANGED <<alive, USE_SIGNED_URL, joinUsers>>
    /\ UNCHANGED linkVars
    /\ UNCHANGED cmdVars
    /\ UNCHANGED <<vadTalking, sinceVoice, leftWhile, idleClosed>>
    /\ UNCHANGED seqVars
    /\ UNCHANGED extVars
    /\ UNCHANGED gateVars

\* downsampler 'data' of pipeline p: a frame of n units
BufFrame(p, loud, n) ==
    /\ alive
    /\ p \in pipeLive
    /\ LET r == onData(sendBuffer[p], talkingOf[p], sinceLast[p], loud,
                       [i \in 1..n |-> ~Ready])
       IN  /\ sendBuffer' = [sendBuffer EXCEPT ![p] = r.buf]
           /\ talkingOf' = [talkingOf EXCEPT ![p] = r.talking]
           /\ sinceLast' = [sinceLast EXCEPT ![p] = r.since]
           /\ out' = SendAll(ws, readyState, r.chunks)
                     \o (IF r.end THEN sendUserAudioEnd(ws, readyState)
                         ELSE <<>>)
    /\ act' = "BufFrame"
    /\ UNCHANGED <<alive, USE_SIGNED_URL, pipeLive, recv, joinUsers,
                   pipeClosed>>
    /\ UNCHANGED linkVars
    /\ UNCHANGED cmdVars
    /\ UNCHANGED <<vadTalking, sinceVoice, leftWhile, idleClosed>>
    /\ UNCHANGED seqVars
    /\ UNCHANGED extVars
    /\ UNCHANGED gateVars

\* an event of a stream of pipeline p after it was cleaned up and its
\* listeners were removed: no handler runs
BufLate(p) ==
    /\ alive
    /\ p \in pipeClosed
    /\ p \notin pipeLive
    /\ out' = <<>>
    /\ act' = "BufLate"
    /\ UNCHANGED <<alive, USE_SIGNED_URL>>
    /\ UNCHANGED linkVars
    /\ UNCHANGED cmdVars
    /\ UNCHANGED capVars
    /\ UNCHANGED <<leftWhile, idleClosed>>
    /\ UNCHANGED seqVars
    /\ UNCHANGED extVars
    /\ UNCHANGED gateVars
    /\ UNCHANGED bufVars

\* ws.on('open') of socket s: a send on a null or connecting module-level
\* ws throws out of the handler and is logged
BufSockOpen(s) ==
    /\ alive
    /\ readyState[s] = "CONNECTING"
    /\ readyState' = [readyState EXCEPT ![s] = "OPEN"]
    /\ resetIdleTimer
    /\ out' = (IF ws # NULL /\ readyState'[ws] = "OPEN"
               THEN <<Msg("init", ws, 0, 0), Msg("session_update", ws, 0, 0)>>
               ELSE <<>>)
    /\ act' = "BufSockOpen"
    /\ UNCHANGED <<alive, USE_SIGNED_URL, ws, wantWs, reconnects>>
    /\ UNCHANGED cmdVars
    /\ UNCHANGED capVars
    /\ UNCHANGED <<leftWhile, idleClosed>>
    /\ UNCHANGED seqVars
    /\ UNCHANGED extVars
    /\ UNCHANGED gateVars
    /\ UNCHANGED bufVars

\* one tick passes; no timeout is due
BufTick ==
    /\ alive
    /\ idleTimer # 0
    /\ IF reconnects = <<>> THEN TRUE ELSE Head(reconnects) > 0
    /\ idleTimer' = IF idleTimer > 0 THEN idleTimer - 1 ELSE idleTimer
    /\ reconnects' = [i \in 1..Len(reconnects) |-> reconnects[i] - 1]
    /\ sinceLast' = [p \in DOMAIN sinceLast |->
                        IF p \in pipeLive /\ sinceLast[p] < VAD_HANG
                        THEN sinceLast[p] + 1 ELSE sinceLast[p]]
    /\ out' = <<>>
    /\ act' = "BufTick"
    /\ UNCHANGED <<alive, USE_SIGNED_URL, ws, wantWs, readyState>>
    /\ UNCHANGED cmdVars
    /\ UNCHANGED capVars
    /\ UNCHANGED <<leftWhile, idleClosed>>
    /\ UNCHANGED <<recv, talkingOf, joinUsers, pipeClosed>>
    /\ UNCHANGED seqVars
    /\ UNCHANGED extVars
    /\ UNCHANGED gateVars

NextGuard ==
    \/ \E u \in Users : BufJoin(u)
    \/ \E i \in 1..MaxFetch : BufFetchResolve(i)
    \/ \E i \in 1..MaxFetch : BufFetchReject(i)
    \/ FetchResolve("timer")
    \/ FetchReject("timer")
    \/ BufLeave
    \/ \E s \in SockIds : BufSockOpen(s)
    \/ \E s \in SockIds : SockClose(s)
    \/ ReconnectFire
    \/ IdleFire
    \/ \E p \in PipeIds, loud \in BOOLEAN, n \in 1..MaxFrame : BufFrame(p, loud, n)
    \/ \E p \in PipeIds : BufStreamEnd(p)
    \/ \E p \in PipeIds : BufLate(p)
    \/ BufTick

SpecGuard == InitGuard /\ [][NextGuard]_vars

\* SpecRetarget is the same variant with a direct agent URL and an agent
\* that cannot be reached: every socket closes before it opens
NextRetarget ==
    \/ \E u \in Users : BufJoin(u)
    \/ BufLeave
    \/ \E s \in SockIds : SockClose(s)
    \/ ReconnectFire
    \/ \E p \in PipeIds, loud \in BOOLEAN, n \in 1..MaxFrame : BufFrame(p, loud, n)
    \/ \E p \in PipeIds : BufStreamEnd(p)
    \/ \E p \in PipeIds : BufLate(p)
    \/ BufTick

SpecRetarget == InitCap /\ [][NextRetarget]_vars

\* ------------------------------------------- the utterance buffer
\* SpecUtter is the agent-audio side of the guarded variant of
\* src/deploy-commands.js: the message handler collects the fragments of an
\* utterance in currentUtteranceChunks, flushUtterance hands them to
\* playPcm16kBufferOnce on audio.end or when the flush timeout fires, and
\* the player hands the resource to the voice connection.  The user does
\* not speak.

\* fragments of audio the agent sends at most
MaxFrags == 3
\* FLUSH_IDLE_MS in ticks
FLUSH_IDLE_TICKS == 2

\* message types the agent sends in SpecUtter
UtterKinds == {"ping", "audio", "audio.delta", "audio.end", "other"}

\* playPcm16kBufferOnce(pcm16kBuf) with a buffer that is not empty: a new
\* resampler, a new encoder and a new audio resource; audioPlayer.play()
\* makes the new resource the player's resource and destroys the one it
\* had
playPcm16kBufferOnce(pcm) ==
    /\ built' = built + 1
    /\ resource' = pcm
    /\ out' = <<[t |-> "utterance", frags |-> pcm]>>

\* flushUtterance(reason); timer is what flushTimer holds when it is called
flushUtterance_NoEmptyCheck(timer) ==
    /\ currentUtteranceChunks' = <<>>
    /\ flushTimer' = -1
    /\ playPcm16kBufferOnce(currentUtteranceChunks)
flushUtterance(timer) ==
    IF currentUtteranceChunks = <<>>
    THEN /\ flushTimer' = timer
         /\ out' = <<>>
         /\ UNCHANGED <<currentUtteranceChunks, built, resource>>
    ELSE /\ currentUtteranceChunks' = <<>>
         /\ flushTimer' = -1
         /\ playPcm16kBufferOnce(currentUtteranceChunks)

\* ws.on('message') of socket s: a message of this type
UtterMsgIn(s, kind) ==
    /\ alive
    /\ readyState[s] = "OPEN"
    /\ IF kind \in {"audio", "audio.delta"}
       THEN /\ nextFrag <= MaxFrags
            /\ resetIdleTimer
            /\ currentUtteranceChunks' = Append(currentUtteranceChunks, nextFrag)
            /\ nextFrag' = nextFrag + 1
            /\ flushTimer' = FLUSH_IDLE_TICKS
            /\ sinceFrag' = 0
            /\ out' = <<>>
            /\ UNCHANGED <<built, resource>>
       ELSE IF kind = "audio.end"
       THEN /\ flushUtterance(flushTimer)
            /\ sinceFrag' = 0
            /\ UNCHANGED <<idleTimer, nextFrag>>
       ELSE /\ out' = (IF kind = "ping" /\ Ready
                       THEN <<Msg("pong", ws, 0, 0)>> ELSE <<>>)
            /\ UNCHANGED idleTimer
            /\ UNCHANGED utterVars
    /\ act' = kind
    /\ UNCHANGED <<alive, USE_SIGNED_URL, ws, wantWs, readyState, reconnects>>
    /\ UNCHANGED cmdVars
    /\ UNCHANGED capVars
    /\ UNCHANGED <<leftWhile, idleClosed>>
    /\ UNCHANGED seqVars
    /\ UNCHANGED gateVars
    /\ UNCHANGED bufVars
    /\ UNCHANGED <<asmVars, sinkVars, watchVars>>
    /\ UNCHANGED sessVars

\* the flush timeout set by the message handler fires: flushUtterance('idle')
FlushFire ==
    /\ alive
    /\ flushTimer = 0
    /\ flushUtterance(-1)
    /\ sinceFrag' = 0
    /\ act' = "FlushFire"
    /\ UNCHANGED nextFrag
    /\ UNCHANGED <<alive, USE_SIGNED_URL>>
    /\ UNCHANGED linkVars
    /\ UNCHANGED cmdVars
    /\ UNCHANGED capVars
    /\ UNCHANGED <<leftWhile, idleClosed>>
    /\ UNCHANGED seqVars
    /\ UNCHANGED gateVars
    /\ UNCHANGED bufVars
    /\ UNCHANGED <<asmVars, sinkVars, watchVars>>
    /\ UNCHANGED sessVars

\* the player takes the next fragment of its resource and hands it to the
\* voice connection
PlayerPull ==
    /\ alive
    /\ resource # <<>>
    /\ resource' = Tail(resource)
    /\ out' = <<[t |-> "sink", frags |-> <<Head(resource)>>]>>
    /\ act' = "PlayerPull"
    /\ UNCHANGED <<currentUtteranceChunks, flushTimer, nextFrag, built,
                   sinceFrag>>
    /\ UNCHANGED <<alive, USE_SIGNED_URL>>
    /\ UNCHANGED linkVars
    /\ UNCHANGED cmdVars
    /\ UNCHANGED capVars
    /\ UNCHANGED <<leftWhile, idleClosed>>
    /\ UNCHANGED seqVars
    /\ UNCHANGED gateVars
    /\ UNCHANGED bufVars
    /\ UNCHANGED <<asmVars, sinkVars, watchVars>>
    /\ UNCHANGED sessVars

\* one tick passes; no timeout is due
UtterTick ==
    /\ alive
    /\ idleTimer # 0
    /\ flushTimer # 0
    /\ IF reconnects = <<>> THEN TRUE ELSE Head(reconnects) > 0
    /\ idleTimer' = IF idleTimer > 0 THEN idleTimer - 1 ELSE idleTimer
    /\ flushTimer' = IF flushTimer > 0 THEN flushTimer - 1 ELSE flushTimer
    /\ reconnects' = [i \in 1..Len(reconnects) |-> reconnects[i] - 1]
    /\ sinceFrag' = IF currentUtteranceChunks # <<>> THEN sinceFrag + 1
                    ELSE sinceFrag
    /\ out' = <<>>
    /\ act' = "UtterTick"
    /\ UNCHANGED <<currentUtteranceChunks, nextFrag, built, resource>>
    /\ UNCHANGED <<alive, USE_SIGNED_URL, ws, wantWs, readyState>>
    /\ UNCHANGED cmdVars
    /\ UNCHANGED capVars
    /\ UNCHANGED <<leftWhile, idleClosed>>
    /\ UNCHANGED seqVars
    /\ UNCHANGED gateVars
    /\ UNCHANGED bufVars
    /\ UNCHANGED <<asmVars, sinkVars, watchVars>>
    /\ UNCHANGED sessVars

NextUtter ==
    \/ \E u \in Users : BufJoin(u)
    \/ \E i \in 1..MaxFetch : BufFetchResolve(i)
    \/ \E i \in 1..MaxFetch : BufFetchReject(i)
    \/ FetchResolve("timer")
    \/ FetchReject("timer")
    \/ BufLeave
    \/ \E s \in SockIds : BufSockOpen(s)
    \/ \E s \in SockIds : SockClose(s)
    \/ \E s \in SockIds, k \in UtterKinds : UtterMsgIn(s, k)
    \/ ReconnectFire
    \/ IdleFire
    \/ FlushFire
    \/ PlayerPull
    \/ UtterTick

SpecUtter == InitGuard /\ [][NextUtter]_vars

\* ------------------------------------------- the playback stream
\* SpecPlay is src/server.js with a direct agent URL, a user who does not
\* speak, and the amount of agent audio that waits in playbackPCM16k, the
\* PassThrough the message handler writes to and the resampler reads from.

\* highWaterMark of playbackPCM16k, in units of audio
highWaterMark == 2
\* units of audio an audio event carries at most
MaxAudio == 2
\* units the stream is let to buffer in SpecPlay
MaxBuffered == 6

\* ws.on('message') of socket s: an audio event that carries n units.  The
\* handler writes them to playbackPCM16k and does not look at what write()
\* returns: false once the stream holds highWaterMark units or more
PlayAudio(s, n) ==
    /\ alive
    /\ readyState[s] = "OPEN"
    /\ pcmBuffered + n <= MaxBuffered
    /\ resetIdleTimer
    /\ pcmBuffered' = pcmBuffered + n
    /\ writeOK' = (pcmBuffered + n < highWaterMark)
    /\ out' = <<Msg("play", NULL, n, 0)>>
    /\ act' = "PlayAudio"
    /\ UNCHANGED <<alive, USE_SIGNED_URL, ws, wantWs, readyState, reconnects>>
    /\ UNCHANGED cmdVars
    /\ UNCHANGED capVars
    /\ UNCHANGED <<leftWhile, idleClosed>>
    /\ UNCHANGED seqVars
    /\ UNCHANGED gateVars
    /\ UNCHANGED bufVars
    /\ UNCHANGED <<asmVars, utterVars, watchVars>>
    /\ UNCHANGED sessVars

\* the resampler reads n units from playbackPCM16k
PlayDrain(n) ==
    /\ alive
    /\ n <= pcmBuffered
    /\ pcmBuffered' = pcmBuffered - n
    /\ out' = <<>>
    /\ act' = "PlayDrain"
    /\ UNCHANGED writeOK
    /\ UNCHANGED <<alive, USE_SIGNED_URL>>
    /\ UNCHANGED linkVars
    /\ UNCHANGED cmdVars
    /\ UNCHANGED capVars
    /\ UNCHANGED <<leftWhile, idleClosed>>
    /\ UNCHANGED seqVars
    /\ UNCHANGED gateVars
    /\ UNCHANGED bufVars
    /\ UNCHANGED <<asmVars, utterVars, watchVars>>
    /\ UNCHANGED sessVars

NextPlay ==
    \/ JoinVoice
    \/ JoinConnect
    \/ Leave
    \/ \E s \in SockIds : SockOpen(s)
    \/ \E s \in SockIds : SockClose(s)
    \/ \E s \in SockIds, n \in 1..MaxAudio : PlayAudio(s, n)
    \/ \E n \in 1..MaxAudio : PlayDrain(n)
    \/ ReconnectFire
    \/ IdleFire
    \/ Tick

SpecPlay == InitCap /\ [][NextPlay]_vars

\* ------------------------------------------- the voice watchdog
\* SpecWatch is src/server.js with a direct agent URL, a user who does not
\* speak, and the watchdog of the voice connection: the stateChange
\* handler of watchVoiceConnection and the rejoin timers it sets.

\* rejoin timers of the watchdog pending at once
MaxRejoins == 3
\* stateChange handlers of the watchdog on one voice connection
MaxWatchers == 3

\* dao-join: joinVoice(), then the handler awaits fetchMe / setDeaf.
\* joinVoiceChannel returns the connection the bot already has in the
\* guild, when it has one, and watchVoiceConnection registers one more
\* stateChange handler on whatever it is given
WatchJoinVoice ==
    /\ alive
    /\ joining < MaxJoins
    /\ connection => watchers < MaxWatchers
    /\ shouldStayInVC' = TRUE
    /\ connection' = TRUE
    /\ watchers' = (IF connection THEN watchers + 1 ELSE 1)
    /\ joining' = joining + 1
    /\ out' = <<>>
    /\ act' = "WatchJoinVoice"
    /\ UNCHANGED <<alive, USE_SIGNED_URL, fetchJoin, fetchTimer>>
    /\ UNCHANGED linkVars
    /\ UNCHANGED capVars
    /\ leftWhile' = "none"
    /\ UNCHANGED idleClosed
    /\ UNCHANGED seqVars
    /\ UNCHANGED gateVars
    /\ UNCHANGED bufVars
    /\ UNCHANGED <<asmVars, utterVars, sinkVars, rejoinTimers,
                   currentTargetUserId>>
    /\ UNCHANGED sessVars

\* dao-join, continued: await connectElevenWS(); listenToUser(user), which
\* records the user in currentTargetUserId when the bot is in a channel
WatchJoinConnect ==
    /\ alive
    /\ joining > 0
    /\ joining' = joining - 1
    /\ connectElevenWS("join")
    /\ listenToUser
    /\ currentTargetUserId' = (connection \/ currentTargetUserId)
    /\ out' = <<>>
    /\ act' = "WatchJoinConnect"
    /\ UNCHANGED <<alive, USE_SIGNED_URL, connection, shouldStayInVC,
                   idleTimer, reconnects>>
    /\ idleClosed' = FALSE
    /\ UNCHANGED leftWhile
    /\ UNCHANGED seqVars
    /\ UNCHANGED gateVars
    /\ UNCHANGED bufVars
    /\ UNCHANGED <<asmVars, utterVars, sinkVars, rejoinTimers, watchers>>
    /\ UNCHANGED sessVars

\* conn.on('stateChange') with newState Disconnected: every registered
\* handler runs.  With shouldStayInVC a handler waits up to 5 s for the
\* connection to signal or connect again; when it does not (recovers is
\* FALSE) it sets a rejoin timer
VoiceDisconnected(recovers) ==
    /\ alive
    /\ connection
    /\ IF ~shouldStayInVC \/ recovers
       THEN UNCHANGED rejoinTimers
       ELSE /\ rejoinTimers + watchers <= MaxRejoins
            /\ rejoinTimers' = rejoinTimers + watchers
    /\ out' = <<>>
    /\ act' = "VoiceDisconnected"
    /\ UNCHANGED <<alive, USE_SIGNED_URL>>
    /\ UNCHANGED linkVars
    /\ UNCHANGED cmdVars
    /\ UNCHANGED capVars
    /\ UNCHANGED <<leftWhile, idleClosed>>
    /\ UNCHANGED seqVars
    /\ UNCHANGED gateVars
    /\ UNCHANGED bufVars
    /\ UNCHANGED <<asmVars, utterVars, sinkVars, currentTargetUserId, watchers>>
    /\ UNCHANGED sessVars

\* the rejoin timer fires: joinVoice(guild, channel), which registers a
\* handler, then watchVoiceConnection(connection, ...), which registers
\* another, then listenToUser of the recorded user on that connection
RejoinFire ==
    /\ alive
    /\ rejoinTimers > 0
    /\ connection => watchers + 2 <= MaxWatchers
    /\ rejoinTimers' = rejoinTimers - 1
    /\ shouldStayInVC' = TRUE
    /\ connection' = TRUE
    /\ watchers' = (IF connection THEN watchers + 2 ELSE 2)
    /\ IF currentTargetUserId
       THEN /\ PipeIds \ pipeLive # {}
            /\ LET p == CHOOSE q \in PipeIds \ pipeLive :
                           \A r \in PipeIds \ pipeLive : q <= r
               IN  /\ pipeLive' = pipeLive \cup {p}
                   /\ sendBuffer' = [sendBuffer EXCEPT ![p] = <<>>]
            /\ UNCHANGED <<vadTalking, sinceVoice>>
       ELSE UNCHANGED capVars
    /\ out' = <<>>
    /\ act' = "RejoinFire"
    /\ UNCHANGED <<alive, USE_SIGNED_URL, joining, fetchJoin, fetchTimer>>
    /\ UNCHANGED linkVars
    /\ UNCHANGED <<leftWhile, idleClosed>>
    /\ UNCHANGED seqVars
    /\ UNCHANGED gateVars
    /\ UNCHANGED bufVars
    /\ UNCHANGED <<asmVars, utterVars, sinkVars, currentTargetUserId>>
    /\ UNCHANGED sessVars

NextWatch ==
    \/ WatchJoinVoice
    \/ WatchJoinConnect
    \/ Leave
    \/ \E recovers \in BOOLEAN : VoiceDisconnected(recovers)
    \/ RejoinFire
    \/ \E s \in SockIds : SockOpen(s)
    \/ \E s \in SockIds : SockClose(s)
    \/ \E p \in PipeIds : PipeEnd(p)
    \/ ReconnectFire
    \/ IdleFire
    \/ Tick

SpecWatch == InitCap /\ [][NextWatch]_vars

\* ------------------------------------------------- several guilds
\* SpecGuilds is src/server.js with a direct agent URL and commands that
\* arrive from several guilds, each with one voice channel.  The voice
\* library keeps one voice connection per guild; the program keeps the
\* one reference `connection`.

\* guilds the commands come from
MaxGuilds == 2
Guilds == 1..MaxGuilds

\* dao-join issued in guild g: joinVoice(), then the handler awaits
\* fetchMe / setDeaf
GuildJoinVoice(g) ==
    /\ alive
    /\ joining < MaxJoins
    /\ shouldStayInVC' = TRUE
    /\ connection' = TRUE
    /\ connGuild' = g
    /\ voiceConns' = voiceConns \cup {g}
    /\ joining' = joining + 1
    /\ out' = <<>>
    /\ act' = "GuildJoinVoice"
    /\ UNCHANGED <<alive, USE_SIGNED_URL, fetchJoin, fetchTimer>>
    /\ UNCHANGED linkVars
    /\ UNCHANGED capVars
    /\ leftWhile' = "none"
    /\ UNCHANGED idleClosed
    /\ UNCHANGED seqVars
    /\ UNCHANGED gateVars
    /\ UNCHANGED bufVars
    /\ UNCHANGED <<asmVars, utterVars, sinkVars, watchVars, cfgVars, audioSince>>

\* dao-leave issued in guild g: leaveVoice() destroys the connection the
\* module refers to and stops the agent socket
GuildLeave(g) ==
    /\ alive
    /\ shouldStayInVC' = FALSE
    /\ connection' = FALSE
    /\ connGuild' = NULL
    /\ voiceConns' = (IF connection THEN voiceConns \ {connGuild}
                      ELSE voiceConns)
    /\ stopEleven
    /\ out' = <<>>
    /\ act' = "GuildLeave"
    /\ UNCHANGED <<alive, USE_SIGNED_URL, idleTimer, reconnects, joining,
                   fetchJoin, fetchTimer>>
    /\ UNCHANGED capVars
    /\ leftWhile' = (IF Ready THEN "Ready" ELSE IF Connecting THEN "Connecting"
                     ELSE "Disconnected")
    /\ UNCHANGED idleClosed
    /\ UNCHANGED seqVars
    /\ UNCHANGED gateVars
    /\ UNCHANGED bufVars
    /\ UNCHANGED <<asmVars, utterVars, sinkVars, watchVars, cfgVars, audioSince>>

NextGuilds ==
    \/ \E g \in Guilds : GuildJoinVoice(g)
    \/ JoinConnect
    \/ \E g \in Guilds : GuildLeave(g)
    \/ \E s \in SockIds : SockOpen(s)
    \/ \E s \in SockIds : SockClose(s)
    \/ \E p \in PipeIds : PipeEnd(p)
    \/ ReconnectFire
    \/ IdleFire
    \/ Tick

SpecGuilds == InitCap /\ [][NextGuilds]_vars

\* ------------------------------------------ chunks and their ends
\* SpecCommit is src/server.js with a direct agent URL and the record of
\* the sockets that were sent a chunk since their last end-of-utterance
\* message.

RECURSIVE SinceAfter(_, _)
\* the sockets with a chunk and no later end-of-utterance message, after
\* the messages q were sent
SinceAfter(q, since) ==
    IF q = <<>> THEN since
    ELSE SinceAfter(Tail(q),
                    IF Head(q).t = "chunk" THEN since \cup {Head(q).s}
                    ELSE IF Head(q).t = "end" THEN since \ {Head(q).s}
                    ELSE since)

\* downsampler.on('data') of pipeline p: a frame of n units
CommitFrame(p, loud, n) ==
    /\ alive
    /\ p \in pipeLive
    /\ resetIdleTimer
    /\ LET r == onData(sendBuffer[p], vadTalking, sinceVoice, loud,
                       [i \in 1..n |-> ~Ready])
           sent == SendAll(ws, readyState, r.chunks)
                   \o (IF r.end THEN sendUserAudioEnd(ws, readyState)
                       ELSE <<>>)
       IN  /\ sendBuffer' = [sendBuffer EXCEPT ![p] = r.buf]
           /\ vadTalking' = r.talking
           /\ sinceVoice' = r.since
           /\ out' = sent
           /\ audioSince' = SinceAfter(sent, audioSince)
    /\ act' = "CommitFrame"
    /\ UNCHANGED <<alive, USE_SIGNED_URL, ws, wantWs, readyState, reconnects,
                   pipeLive>>
    /\ UNCHANGED cmdVars
    /\ UNCHANGED <<leftWhile, idleClosed>>
    /\ UNCHANGED seqVars
    /\ UNCHANGED gateVars
    /\ UNCHANGED bufVars
    /\ UNCHANGED <<asmVars, utterVars, sinkVars, watchVars, cfgVars, guildVars>>

\* downsampler.on('end') of pipeline p
CommitPipeEnd(p) ==
    /\ alive
    /\ p \in pipeLive
    /\ pipeLive' = pipeLive \ {p}
    /\ sendBuffer' = [sendBuffer EXCEPT ![p] = <<>>]
    /\ vadTalking' = FALSE
    /\ LET sent == (IF Len(sendBuffer[p]) > 0
                    THEN sendUserAudioChunk(ws, readyState, sendBuffer[p])
                    ELSE <<>>)
                   \o (IF vadTalking THEN sendUserAudioEnd(ws, readyState)
                       ELSE <<>>)
       IN  /\ out' = sent
           /\ audioSince' = SinceAfter(sent, audioSince)
    /\ act' = "CommitPipeEnd"
    /\ UNCHANGED <<alive, USE_SIGNED_URL, sinceVoice>>
    /\ UNCHANGED linkVars
    /\ UNCHANGED cmdVars
    /\ UNCHANGED <<leftWhile, idleClosed>>
    /\ UNCHANGED seqVars
    /\ UNCHANGED gateVars
    /\ UNCHANGED bufVars
    /\ UNCHANGED <<asmVars, utterVars, sinkVars, watchVars, cfgVars, guildVars>>

\* ws.on('close') of socket s; the record of the closed socket is dropped
CommitSockClose(s) ==
    /\ alive
    /\ readyState[s] # "FREE"
    /\ readyState' = [readyState EXCEPT ![s] = "FREE"]
    /\ ws' = NULL
    /\ idleTimer' = -1
    /\ IF wantWs /\ connection
       THEN /\ Len(reconnects) < MaxTimers
            /\ reconnects' = Append(reconnects, RECONNECT_TICKS)
       ELSE UNCHANGED reconnects
    /\ audioSince' = audioSince \ {s}
    /\ out' = <<>>
    /\ act' = "CommitSockClose"
    /\ UNCHANGED <<alive, USE_SIGNED_URL, wantWs>>
    /\ UNCHANGED cmdVars
    /\ UNCHANGED capVars
    /\ UNCHANGED <<leftWhile, idleClosed>>
    /\ UNCHANGED seqVars
    /\ UNCHANGED gateVars
    /\ UNCHANGED bufVars
    /\ UNCHANGED <<asmVars, utterVars, sinkVars, watchVars, cfgVars, guildVars>>

NextCommit ==
    \/ JoinVoice
    \/ JoinConnect
    \/ Leave
    \/ \E s \in SockIds : SockOpen(s)
    \/ \E s \in SockIds : CommitSockClose(s)
    \/ ReconnectFire
    \/ IdleFire
    \/ \E p \in PipeIds, loud \in BOOLEAN, n \in 1..MaxFrame :
           CommitFrame(p, loud, n)
    \/ \E p \in PipeIds : CommitPipeEnd(p)
    \/ Tick

SpecCommit == InitCap /\ [][NextCommit]_vars

\* ---------------------------------------------------------------- claims
\* a connect attempt was started by the step: a getSignedUrl() call was
\* issued or a socket was created
AttemptStarted ==
    \/ fetchJoin' + fetchTimer' > fetchJoin + fetchTimer
    \/ \E s \in SockIds : readyState[s] = "FREE" /\ readyState'[s] = "CONNECTING"

\* C1: when the agent socket closes while wantWs is true and the bot is in
\* a voice channel, a reconnect timeout of the fixed delay is scheduled, and
\* when a reconnect timeout fires with the link still wanted, the bot still
\* in the channel and no attempt in progress, a new connect attempt starts.
C1_ReconnectStartsAttempt ==
    [][/\ (act' = "SockClose" /\ wantWs /\ connection
              => reconnects' = Append(reconnects, RECONNECT_TICKS))
       /\ (act' = "ReconnectFire" /\ wantWs /\ connection /\ shouldStayInVC
              /\ ws = NULL /\ fetchJoin + fetchTimer = 0
              => AttemptStarted)]_vars

\* C2: a reconnect timeout that fires after leave() (and before a new join)
\* creates no socket, starts no fetch and leaves wantWs false.
C2_NoConnectAfterLeave ==
    [][act' = "ReconnectFire" /\ ~shouldStayInVC /\ ~wantWs
          => ~AttemptStarted /\ ~wantWs']_vars

\* C3: after a leave() that found the supervisor Connecting, the supervisor
\* is never Ready and no reconnect timeout starts an attempt, until a join.
C3_LeaveWhileConnecting ==
    [][leftWhile' = "Connecting"
          => /\ ~Ready'
             /\ (act' = "ReconnectFire" => ~AttemptStarted)]_vars

\* C4: at most one agent socket is connecting or open.
C4_OneLiveSocket == Cardinality(LiveSockets) <= 1

\* C6: when the only connect attempt fails while wantWs is true (the fetch
\* rejects, or the socket closes before it opened), the supervisor is
\* Disconnected, a reconnect timeout is scheduled and a later
\* connectElevenWS() is not a no-op.
C6_FailedAttemptRecovers ==
    [][(\/ act' = "FetchReject" /\ wantWs /\ ws = NULL
              /\ fetchJoin + fetchTimer = 1
        \/ act' = "SockClose" /\ wantWs /\ connection /\ ws # NULL
              /\ readyState[ws] = "CONNECTING" /\ readyState'[ws] = "FREE"
              /\ fetchJoin + fetchTimer = 0)
          => /\ Disconnected'
             /\ reconnects' = Append(reconnects, RECONNECT_TICKS)
             /\ ~connectIsNoOp']_vars

HasChunk(q) == \E i \in 1..Len(q) : q[i].t = "chunk"

\* C7: the idle timeout takes a Ready link to Disconnected; from then on,
\* until connectElevenWS() is called, no capture handler sends a chunk and
\* the link is not Ready; the connectElevenWS() call that follows starts an
\* attempt.
C7_IdleCloseThenNoSend ==
    [][/\ (act' = "IdleFire" /\ Ready => Disconnected' /\ idleClosed')
       /\ (idleClosed' => ~Ready' /\ ~HasChunk(out'))
       /\ (idleClosed /\ ~idleClosed' => AttemptStarted)]_vars

\* C8: after the idle timeout closed a Ready link, no close event schedules
\* a reconnect and the supervisor stays Disconnected, until connectElevenWS()
\* is called.
C8_IdleCloseIsIntentional ==
    [][idleClosed'
          => /\ reconnects' = reconnects \/ act' = "Tick"
             /\ Disconnected']_vars

\* C5: a connectElevenWS() call made while the supervisor is Connecting or
\* Ready creates no socket, starts no fetch and changes no supervisor state.
\* In src/server.js the supervisor state is ws, wantWs and the idle timer.
C5_ConnectNoOpServer ==
    [][act' = "JoinConnect" /\ (Connecting \/ Ready)
          => ~AttemptStarted /\ UNCHANGED <<ws, wantWs, readyState, idleTimer>>]_vars

\* C5, for the sequence-numbered variant (dao-join calls connectElevenWS).
C5_ConnectNoOp ==
    [][act' = "SeqJoin" /\ (SeqConnecting \/ SeqReady)
          => ~AttemptStarted /\ UNCHANGED <<ws, readyState>>]_vars

RECURSIVE StaleSent(_)
StaleSent(q) ==
    IF q = <<>> THEN 0
    ELSE (IF Head(q).t = "chunk" THEN Head(q).stale ELSE 0) + StaleSent(Tail(q))
Sent(q) == \E i \in 1..Len(q) : q[i].t \in {"chunk", "end"}

\* C10 as stated: while the socket is not open the capture handlers send
\* nothing, and no unit of audio captured while the link was not Ready is
\* ever sent to the agent.
C10_NoStaleAudio ==
    [][/\ (act' \in {"Frame", "PipeEnd"} /\ ~Ready => ~Sent(out'))
       /\ StaleSent(out') = 0]_vars

\* C10 amended: while the socket is not open the capture handlers send
\* nothing and what they hand to sendUserAudioChunk / sendUserAudioEnd is
\* dropped; audio captured while the link was not Ready reaches the agent
\* only from the gate's own buffer, which holds less than one chunk of it.
C10_OnlyResidualIsStale ==
    [][/\ (act' \in {"Frame", "PipeEnd"} /\ ~Ready => ~Sent(out'))
       /\ StaleSent(out') < chunkBytes
       /\ \A p \in PipeIds : CountTrue(sendBuffer'[p]) < chunkBytes]_vars

\* a frame arrived while the link was not Ready and its chunk was dropped
C10_Witness ==
    /\ act = "Frame" /\ ~Ready
    /\ \E i \in 1..Len(out) : out[i].t = "chunk.dropped"

\* C11: every ping received on an open agent socket is answered with
\* exactly one pong that carries the ping's event id and is sent on the
\* socket the ping arrived on.
C11_PongOnArrivalSocket ==
    [][\A s \in SockIds, id \in PingIds :
          MsgIn(s, "ping", id) => out' = <<Msg("pong", s, id, 0)>>]_vars

\* the inbound messages that are malformed or of a type the handler does
\* not know
DroppedKinds == {"garbage", "other", "audio.end", "ping.bare", "audio.bare"}

RECURSIVE Emitted(_)
\* the units of the chunk calls of a log, concatenated in call order
Emitted(log) ==
    IF log = <<>> THEN <<>> ELSE Head(log).units \o Emitted(Tail(log))
RECURSIVE Ends(_)
\* the number of end-of-utterance calls of a log
Ends(log) ==
    IF log = <<>> THEN 0
    ELSE (IF Head(log).t = "end" THEN 1 ELSE 0) + Ends(Tail(log))

\* C13: once a talking period is over (the hangover expired on a frame
\* below the threshold, or the stream ended), the gate has made exactly one
\* end-of-utterance call, as its last call, and the chunks it emitted,
\* concatenated in emission order, are the units of the talking period in
\* capture order.
C13_SingleFlush ==
    captured # <<>> /\ ~vadTalking
        => /\ Ends(gateLog) = 1
           /\ gateLog[Len(gateLog)].t = "end"
           /\ Emitted(gateLog) = captured

\* the hangover expired on a talking period of three units: one full chunk,
\* the partial chunk, the end-of-utterance call
C13_Witness ==
    /\ act = "GFrame" /\ ~vadTalking /\ 1 \in pipeLive
    /\ Len(captured) = chunkBytes + 1
    /\ Len(gateLog) = 3

\* C15: a frame that arrives while the gate is Talking and less than
\* VAD_HANG after the last frame at or above the threshold produces no
\* end-of-utterance call and leaves the gate Talking; its units are in the
\* buffer or in an emitted chunk, in capture order, and they are emitted by
\* the time the talking period is over.
C15_BriefDipKeepsTalking ==
    [][\A f \in Frames :
          GFrame(f) /\ vadTalking /\ sinceVoice < VAD_HANG
              => /\ vadTalking'
                 /\ Ends(out') = 0 /\ Ends(gateLog') = 0
                 /\ captured' = captured \o UnitsOf(Len(f))
                 /\ Emitted(gateLog') \o sendBuffer'[1] = captured'
                 /\ (rms(f) < VAD_THRESH => dipped')]_vars

\* a frame at or above the threshold has just followed a dip
C15_Witness ==
    /\ act = "GFrame" /\ vadTalking /\ dipped /\ sinceVoice = 0
    /\ Ends(gateLog) = 0

\* C16: a frame that finds the gate Silent leaves it Silent with an empty
\* buffer, no chunk call and no end-of-utterance call exactly when its
\* level is strictly below the threshold; a frame at the threshold moves
\* the gate to Talking; the buffer is empty whenever the gate is Silent.
C16_SilentIffBelow ==
    [][/\ \A f \in Frames :
             GFrame(f) /\ ~vadTalking
                 => /\ (rms(f) < VAD_THRESH
                           <=> ~vadTalking' /\ sendBuffer'[1] = <<>>
                               /\ out' = <<>>)
                    /\ (rms(f) = VAD_THRESH => vadTalking')
       /\ (~vadTalking' => sendBuffer'[1] = <<>>)]_vars

\* frames below the threshold were fed to the Silent gate and nothing was
\* buffered or sent
C16_Witness ==
    /\ act = "GFrame" /\ ~vadTalking /\ nextUnit > MaxFrame
    /\ captured = <<>> /\ gateLog = <<>> /\ sendBuffer[1] = <<>>

\* all frames of Scenario B have been fed
ScenDone == nextUnit - 1 = ScenTalk + ScenQuiet

\* C14 as stated: 100 ms of frames above the threshold followed by 400 ms
\* of silent frames yield exactly 5 chunk calls followed by exactly 1
\* end-of-utterance call.
C14_FiveChunksThenEnd ==
    ScenDone
        => /\ Len(gateLog) = 6
           /\ Ends(gateLog) = 1
           /\ gateLog[6].t = "end"

\* C14 amended: the first 5 chunk calls carry the 100 ms of loud audio; the
\* silence received during the 300 ms hangover follows in 14 or 15 more
\* chunk calls; then comes exactly 1 end-of-utterance call, the last call.
C14_HangoverChunksThenEnd ==
    ScenDone
        => /\ Ends(gateLog) = 1
           /\ gateLog[Len(gateLog)].t = "end"
           /\ Len(gateLog) - 1 - 5 \in {14, 15}
           /\ Emitted(SubSeq(gateLog, 1, 5)) = [i \in 1..ScenTalk |-> i]
           /\ Emitted(gateLog) = captured

\* the scenario has run with 19 chunk calls and the end-of-utterance call
C14_Witness == ScenDone /\ Len(gateLog) = 20 /\ ~vadTalking

RECURSIVE EndCalls(_)
\* the sendUserAudioEnd() calls among what a handler sent or dropped
EndCalls(q) ==
    IF q = <<>> THEN 0
    ELSE (IF Head(q).t \in {"end", "end.dropped"} THEN 1 ELSE 0)
         + EndCalls(Tail(q))

\* C17: a Talking run ends with exactly one end-of-utterance call, whether
\* the hangover expires, the stream ends, or a retarget or a leave stops
\* the capture; no end-of-utterance call is made while the gate is Silent.
C17_OneEndPerRun ==
    [][/\ (act' \in {"Leave", "Target"} /\ vadTalking
              => ~vadTalking' /\ EndCalls(out') = 1)
       /\ (vadTalking /\ ~vadTalking' => EndCalls(out') = 1)
       /\ (~vadTalking => EndCalls(out') = 0)]_vars

\* C18: at most one capture pipeline is live.
C18_OneLivePipeline == Cardinality(pipeLive) <= 1

\* C19: a capture pipeline that was closed (by a retarget, a leave or the
\* end / close event of its stream) has no listener left: the only pipeline
\* with listeners is the one on record, a pipeline that leaves the record
\* loses its listeners in the same step, and every data handler that runs
\* is that of the pipeline on record.
C19_ClosedPipelineIsSilent ==
    [][/\ pipeLive' \subseteq {recv'.pipe}
       /\ pipeLive' \cap pipeClosed' = {}
       /\ (recv.pipe # NULL /\ recv'.pipe # recv.pipe
              => recv.pipe \notin pipeLive')
       /\ \A p \in PipeIds, loud \in BOOLEAN, n \in 1..MaxFrame :
             BufFrame(p, loud, n) => p = recv.pipe /\ p \notin pipeClosed]_vars

\* a late event of the pipeline that a retarget closed, with the new
\* pipeline on record
C19_Witness ==
    /\ act = "BufLate" /\ recv.pipe # NULL
    /\ pipeLive = {recv.pipe}

\* what leaveVoice() and cleanupReceivePipeline() can change
leaveState == <<connection, ws, wantWs, idleTimer, readyState, reconnects,
                fetchJoin, fetchTimer, joinUsers, pipeLive, sendBuffer, recv,
                talkingOf, sinceLast, pipeClosed, alive>>

\* C20: a leave that directly follows a leave, or that follows the end of
\* the stream, throws nothing, sends and closes nothing, and changes no
\* state; the first leave sends no end-of-utterance either.
C20_LeaveIdempotent ==
    [][/\ (act = "BufLeave" /\ act' = "BufLeave"
              => UNCHANGED leaveState /\ out' = <<>>)
       /\ (act = "BufStreamEnd" /\ act' = "BufLeave"
              => UNCHANGED <<pipeLive, sendBuffer, recv, talkingOf, sinceLast,
                             pipeClosed>>)
       /\ (act' = "BufLeave"
              => alive' /\ \A i \in 1..Len(out') : out'[i].t = "close")]_vars

\* a leave has directly followed a leave
C20_Witness == act = "BufLeave" /\ leftWhile = "again" /\ out = <<>>

\* C21: an error of a stage of a capture pipeline stops that pipeline: after
\* the error handler has run the pipeline is torn down, and the process
\* keeps running with its link untouched
C21_StageErrorStopsPipeline ==
    [][\A p \in PipeIds :
          StageError(p) => (p \notin pipeLive' /\ alive'
                            /\ UNCHANGED <<ws, wantWs, readyState>>)]_vars

\* C22: when leaveVoice() returns there is no live capture pipeline, no
\* voice connection, no socket reference and wantWs is false; and from the
\* leave until the next dao-join no audio chunk and no end-of-utterance is
\* sent to the agent
C22_LeaveStopsEverything ==
    /\ [][Leave => (pipeLive' = {} /\ ~connection' /\ ws' = NULL
                    /\ ~wantWs')]_vars
    /\ [](leftWhile # "none" => ~Sent(out))

\* the event ids 1..n in some order, n >= 1
IsPermutation(q) == Len(q) > 0 /\ {q[i] : i \in 1..Len(q)} = 1..Len(q)

\* C23: when the audio events a socket has delivered are numbered 1..n,
\* each once, in any order, all n were written to playback in the order
\* 1, 2, ..., n
C23_AnyOrderAllPlayed ==
    \A s \in SockIds :
        (readyState[s] = "OPEN" /\ IsPermutation(arrivedOn[s]))
        => playedOn[s] = [i \in 1..Len(arrivedOn[s]) |-> i]

\* C24: whatever audio events arrive (gaps, duplicates, late ones), the
\* handler writes to playback exactly the event ids from the next expected
\* one up to the first one that is not held, in increasing order; an id
\* below the counter is never written, and the counter moves past what was
\* written; a close event starts the numbering again at 1 with nothing held
C24_ReleasedInSequence ==
    /\ [][\A s \in SockIds, id \in EventIds :
          SeqAudio(s, id) =>
              /\ PlayIds(out') =
                     [i \in 1..(nextExpectedEventId' - nextExpectedEventId)
                         |-> nextExpectedEventId + i - 1]
              /\ nextExpectedEventId' >= nextExpectedEventId
              /\ nextExpectedEventId' \notin pendingAudio'
              /\ (id < nextExpectedEventId => out' = <<>>)]_vars
    /\ [][\A s \in SockIds :
            SeqSockClose(s) => (nextExpectedEventId' = 1
                                /\ pendingAudio' = {})]_vars

\* the gap before a held event is filled while a late duplicate stays held
C24_Witness ==
    /\ act = "SeqAudio"
    /\ Len(out) >= 2
    /\ \E i \in pendingAudio : i < nextExpectedEventId

\* C25: the collected fragments are handed to playback once, all of them
\* since the previous flush and in the order they arrived: by the flush
\* timeout, FLUSH_IDLE_TICKS after the last fragment, when no audio.end
\* came in between, and by audio.end otherwise; a flush leaves no timeout
\* pending, so no second and no empty buffer is handed over
C25_OneFlushPerUtterance ==
    /\ [](/\ (currentUtteranceChunks # <<>>) <=> (flushTimer >= 0)
          /\ currentUtteranceChunks =
                 [i \in 1..Len(currentUtteranceChunks) |->
                     nextFrag - Len(currentUtteranceChunks) + i - 1]
          /\ sinceFrag + flushTimer = (IF flushTimer >= 0
                                       THEN FLUSH_IDLE_TICKS ELSE -1))
    /\ [][built' # built =>
             /\ built' = built + 1
             /\ currentUtteranceChunks # <<>>
             /\ out' = <<[t |-> "utterance", frags |-> currentUtteranceChunks]>>
             /\ currentUtteranceChunks' = <<>>
             /\ flushTimer' = -1
             /\ \/ act' = "audio.end"
                \/ act' = "FlushFire" /\ sinceFrag = FLUSH_IDLE_TICKS]_vars
    /\ [][(FlushFire \/ \E s \in SockIds : UtterMsgIn(s, "audio.end"))
            => (currentUtteranceChunks # <<>> <=> built' # built)]_vars

\* the flush timeout handed over the two fragments of a second utterance
C25_Witness ==
    /\ act = "FlushFire"
    /\ \E i \in 1..MaxFrags : out = <<[t |-> "utterance", frags |-> <<i, i + 1>>]>>
    /\ built = 2

\* C26: the playback pipeline and its audio resource are built at most
\* once, whatever number of utterances is played
C26_PipelineBuiltOnce == built <= 1

\* C27: utterances are played one after the other: a new utterance is
\* queued behind what the player has not handed to the voice connection
\* yet, and discards none of it
C27_UtterancesSerialized ==
    [][built' # built => resource' = resource \o currentUtteranceChunks]_vars

\* C29: leaveVoice() cancels the pending flush timeout and drops the
\* collected fragments, so that between a leave and the next dao-join the
\* flush timeout builds and plays nothing
C29_LeaveCancelsFlush ==
    /\ [][BufLeave => (flushTimer' = -1
                       /\ currentUtteranceChunks' = <<>>)]_vars
    /\ [][(leftWhile # "none" /\ FlushFire)
            => (built' = built /\ resource' = resource)]_vars

\* C28: once a write to the playback stream has returned false, no agent
\* audio is written until the stream has drained, so the stream never
\* holds more than one write above its highWaterMark
C28_WriteHonorsBackpressure ==
    /\ [][(\E s \in SockIds, n \in 1..MaxAudio : PlayAudio(s, n))
            => pcmBuffered < highWaterMark]_vars
    /\ [](pcmBuffered < highWaterMark + MaxAudio)

\* C30: between dao-leave and the next dao-join a rejoin timer of the
\* watchdog that fires does nothing: the bot stays out of the channel,
\* shouldStayInVC stays false and no capture pipeline is made
C30_RejoinAfterLeaveIsNoOp ==
    [][(leftWhile # "none" /\ RejoinFire)
        => UNCHANGED <<connection, shouldStayInVC, pipeLive>>]_vars

\* C31: when the dao-join handler has reported a configuration error no
\* session exists: the bot holds no voice connection, does not mean to
\* stay in a channel, has no capture pipeline and no link or link attempt
C31_ConfigErrorLeavesNoSession ==
    act = "JoinConfigError"
        => /\ ~connection
           /\ ~shouldStayInVC
           /\ pipeLive = {}
           /\ Disconnected

\* C32: a dao-leave issued in one guild leaves the voice connections the
\* bot holds in the other guilds, and with them those sessions, unchanged
C32_LeaveKeepsOtherGuilds ==
    [][\A g \in Guilds :
          GuildLeave(g)
              => \A h \in Guilds \ {g} :
                     (h \in voiceConns') = (h \in voiceConns)]_vars

\* C33: whenever the dao-join handler reaches its reply of success (its
\* connectElevenWS call has returned and listenToUser was called), the
\* link is Ready or a connect attempt is in progress, and a capture
\* pipeline is live
C33_JoinSuccessIsReal ==
    [][(\/ act' = "JoinConnect" /\ ~connectSuspends
        \/ act' = "FetchResolve" /\ fetchJoin' < fetchJoin)
          => (Ready' \/ Connecting') /\ pipeLive' # {}]_vars

\* C34: when an agent socket opens, the open handler sends the initiation
\* handshake and then the declaration of the audio formats on that same
\* socket, and nothing else
C34_HandshakeOnOpenedSocket ==
    [][\A s \in SockIds :
          SockOpen(s)
              => out' = <<Msg("init", s, 0, 0),
                          Msg("session_update", s, 0, 0)>>]_vars

\* C36: the close event of a socket that is not the one the supervisor
\* refers to leaves the reference to the newer socket and the pending idle
\* timeout as they are
C36_StaleCloseKeepsReference ==
    [][\A s \in SockIds :
          SockClose(s) /\ ws # NULL /\ ws # s
              => ws' = ws /\ idleTimer' = idleTimer]_vars

\* C35: a frame that leaves the gate Talking emits only chunks of exactly
\* chunkBytes and leaves less than chunkBytes in the buffer; a frame that
\* takes the gate from Talking to Silent emits full chunks, then the
\* partial chunk if there is one, then the end-of-utterance call as its
\* last call, and leaves the buffer empty
C35_ChunkSizesAndFlushOrder ==
    [][\A f \in Frames :
          GFrame(f)
              => /\ (vadTalking'
                        => /\ Len(sendBuffer'[1]) < chunkBytes
                           /\ \A i \in 1..Len(out') :
                                  /\ out'[i].t = "chunk"
                                  /\ Len(out'[i].units) = chunkBytes)
                 /\ (vadTalking /\ ~vadTalking'
                        => /\ Len(out') >= 1
                           /\ out'[Len(out')].t = "end"
                           /\ \A i \in 1..(Len(out') - 1) :
                                  /\ out'[i].t = "chunk"
                                  /\ Len(out'[i].units) \in 1..chunkBytes
                                  /\ (i < Len(out') - 1
                                         => Len(out'[i].units) = chunkBytes)
                           /\ sendBuffer'[1] = <<>>)]_vars

\* the hangover has just expired on a buffer that held less than a chunk:
\* the partial chunk, then the end-of-utterance call
C35_Witness ==
    /\ act = "GFrame" /\ ~vadTalking
    /\ Len(out) = 2
    /\ out[1].t = "chunk" /\ Len(out[1].units) < chunkBytes
    /\ out[2].t = "end"
    /\ sendBuffer[1] = <<>>

RECURSIVE EndsFollowAudio(_, _)
\* every end-of-utterance message among the messages q goes to a socket
\* that was sent a chunk since its last end-of-utterance message
EndsFollowAudio(q, since) ==
    IF q = <<>> THEN TRUE
    ELSE /\ (Head(q).t = "end" => Head(q).s \in since)
         /\ EndsFollowAudio(Tail(q), SinceAfter(<<Head(q)>>, since))

\* C37: every end-of-utterance message sent on a socket follows at least
\* one chunk sent on that socket since its previous end-of-utterance
\* message, or since it opened
C37_NoCommitWithoutAudio ==
    [][EndsFollowAudio(out', audioSince)]_vars

\* C38: the voice connection the bot holds has at most one stateChange
\* handler of the watchdog, and a Disconnected event sets at most one
\* rejoin timer
C38_OneWatchdogPerConnection ==
    /\ [](connection => watchers <= 1)
    /\ [][(\E recovers \in BOOLEAN : VoiceDisconnected(recovers))
            => rejoinTimers' <= rejoinTimers + 1]_vars

\* C39: while the bot is in a channel and a capture target is on record, a
\* capture pipeline is live
C39_TargetHasLivePipeline ==
    connection /\ currentTargetUserId => pipeLive # {}

\* C40: an end or close event of a stream of a pipeline that is not the
\* one on record (it was torn down by a retarget or a leave) leaves the
\* record, the target, the listeners and the gate of its successor as they
\* are; the only pipeline whose end handler runs is the one on record
C40_LateEndSparesSuccessor ==
    [][\A p \in PipeIds :
          (BufStreamEnd(p) \/ BufLate(p)) /\ p # recv.pipe
              => /\ ~BufStreamEnd(p)
                 /\ UNCHANGED <<recv, pipeLive, pipeClosed, sendBuffer,
                                talkingOf, sinceLast>>]_vars

\* a late event of the pipeline a retarget tore down arrives while its
\* successor is on record and its gate is Talking
C40_Witness ==
    /\ act = "BufLate"
    /\ recv.pipe # NULL /\ recv.pipe \in pipeLive
    /\ pipeClosed # {}
    /\ talkingOf[recv.pipe]

====
